---- MODULE Spec2Model ----
(***************************************************************************)
(* Verification and negotiation engine of QAFAXTestAutomation.             *)
(*                                                                         *)
(*   - app/core/fax_simulation.py : FaxSimulation (negotiation simulator)  *)
(*   - app/verify/align.py        : align_documents (page aligner)         *)
(*   - app/verify/metrics/*.py    : metric functions                       *)
(*   - app/verify/pipeline.py     : VerificationPipeline                   *)
(*                                                                         *)
(* Numbers.  Python floats are modelled by exact arithmetic: timestamps in *)
(* milliseconds, margins in hundredths of a dB, ratios as fractions        *)
(* [num, den] with den > 0 compared by cross multiplication.               *)
(***************************************************************************)
EXTENDS Integers, Sequences, FiniteSets, TLC

VARIABLES
    profile,    \* FaxProfile shared by the simulations of one behaviour
    twister,    \* twister[seed][k]: {k-th uniform(-2.0, 2.0) value of Random(seed)}, in 1/100 dB;
                \* {} until some generator seeded with seed first produces it
    sim,        \* sim[p]: the FaxSimulation object p and the locals of its run()
    lc,         \* a call of lines.compare_sequences and of the LINES status rule
    al,         \* a call of align.align_documents: its arguments and locals
    vd,         \* a call of VerificationPipeline._derive_verdict
    vp          \* a call of VerificationPipeline.verify_pair

vars == <<profile, twister, sim, lc, al, vd, vp>>

simVars == <<profile, twister, sim>>

\* A component that is not running in the behaviours of a specification.
Off == [pc |-> "off"]

(***************************************************************************)
(* Generic helpers                                                         *)
(***************************************************************************)
Abs(x) == IF x < 0 THEN -x ELSE x

Min2(a, b) == IF a <= b THEN a ELSE b

Max2(a, b) == IF a >= b THEN a ELSE b

Range(s) == {s[i] : i \in 1..Len(s)}

\* Python max() of a non-empty list of ints.
MaxOf(s) == CHOOSE x \in Range(s) : \A y \in Range(s) : y <= x

\* Sequences over S of length lo..hi.
SeqsOf(S, lo, hi) == UNION {[1..n -> S] : n \in lo..hi}

(***************************************************************************)
(* Bounds                                                                  *)
(***************************************************************************)
MaxSteps == 2           \* longest bitrate_steps list

(***************************************************************************)
(* FaxProfile (fax_simulation.py:16-42).  from_config() converts every     *)
(* field with int()/str()/bool() and validates nothing, so any list of     *)
(* ints is a possible bitrate_steps.                                       *)
(***************************************************************************)
Bitrates == {-2, -1, 0, 1, 2}

MaxBitrates == {1, 2}

Standards == {"V17", "V34"}

BlockBytes == {256}

FaxProfile ==
    [standard : Standards,
     max_bitrate : MaxBitrates,
     bitrate_steps : SeqsOf(Bitrates, 0, MaxSteps),
     ecm_enabled : BOOLEAN,
     ecm_block_bytes : BlockBytes]

Seeds == {1, 2}

\* FaxSimulation objects alive in one behaviour.
Sims == {1, 2}

\* Positions of a generator's stream the model can name.
MaxDraws == Cardinality(Sims) * MaxSteps

\* Faulty variant of NoiseValues: the values of random.uniform(-4.0, 2.0).
NoiseValuesWide == {-400, 199}

\* Values random.uniform(-2.0, 2.0) can return, in 1/100 dB: a + (b-a)*random()
\* with random() in [0, 1) lies in [-2.0, 2.0).
NoiseValues == {-200, 199}

(***************************************************************************)
(* NegotiationEvent (fax_simulation.py:51-56).  Timestamps in ms.  A       *)
(* detail string is modelled by the tuple of the values formatted into it. *)
(***************************************************************************)
NegotiationEvent(ts, phase, event, detail) ==
    [timestamp |-> ts, phase |-> phase, event |-> event, detail |-> detail]

CFR_THRESHOLD_DB == -250    \* -2.5 dB in 1/100 dB

\* _dis_detail: f"STD:{standard}, ECM:{ecm}, MAX:{max_bitrate}bps"
DisDetail(pr) ==
    <<"STD", pr.standard, "ECM", IF pr.ecm_enabled THEN "ON" ELSE "OFF",
      "MAX", pr.max_bitrate>>

\* Faulty variant of GeneratePhaseBEvents: the DIS event stamped with the walk's start time.
GeneratePhaseBEventsLate(pr) == <<NegotiationEvent(420, "PHASE_B", "DIS", DisDetail(pr))>>

\* _generate_phase_b_events
GeneratePhaseBEvents(pr) == <<NegotiationEvent(0, "PHASE_B", "DIS", DisDetail(pr))>>

\* Faulty variant of BaseMarginFrac: (bitrate / max(bitrate_steps)) * 3.0, which is
\* 3.0 dB at the highest step.
BaseMarginFracRising(pr, bitrate) ==
    LET m == MaxOf(pr.bitrate_steps)
    IN  [num |-> 300 * bitrate * (IF m < 0 THEN -1 ELSE 1), den |-> Abs(m)]

\* The margin of _simulate_margin as an exact fraction of 1/100 dB:
\*   3.0 - (bitrate / max(bitrate_steps)) * 3.0 + noise
\* Only called when max(bitrate_steps) # 0 (Python raises ZeroDivisionError otherwise).
BaseMarginFrac(pr, bitrate) ==
    LET m == MaxOf(pr.bitrate_steps)
    IN  [num |-> 300 * Abs(m) - 300 * bitrate * (IF m < 0 THEN -1 ELSE 1),
         den |-> Abs(m)]

MarginFrac(pr, bitrate, noise) ==
    LET b == BaseMarginFrac(pr, bitrate)
    IN  [num |-> b.num + noise * b.den, den |-> b.den]

\* f"{margin:.2f}": the fraction rounded to an integer number of 1/100 dB
\* (round-half-even, as Python formats an exactly representable tie).
FormatMargin(f) ==
    LET q == f.num \div f.den
        r == f.num - q * f.den
    IN  IF 2 * r < f.den THEN q
        ELSE IF 2 * r > f.den THEN q + 1
        ELSE IF q % 2 = 0 THEN q ELSE q + 1

\* Faulty variant of MarginAccepted: a margin is accepted from 1.0 dB on.
MarginAcceptedAboveOne(f) == f.num >= 100 * f.den

\* Faulty variant of MarginAccepted: a margin is accepted from 0 dB on.
MarginAcceptedPositive(f) == f.num >= 0

\* margin >= self.CFR_THRESHOLD_DB
MarginAccepted(f) == f.num >= CFR_THRESHOLD_DB * f.den

\* Faulty variant of AcceptedBitrate: the accepted step is not stored.
AcceptedBitrateKept(pr, bitrate) == pr.max_bitrate

\* run(), line 102: current_bitrate = bitrate
AcceptedBitrate(pr, bitrate) == bitrate

\* Faulty variant of FallbackTimestamp: the FALLBACK event stamped like a CFR event.
FallbackTimestampLate(timestamp) == timestamp + 500

\* run(), line 107: timestamp + 0.01
FallbackTimestamp(timestamp) == timestamp + 10

\* list.index(bitrate): first position holding the value (0 when absent).
IndexOf(steps, bitrate) ==
    IF bitrate \in Range(steps)
    THEN CHOOSE i \in 1..Len(steps) :
            steps[i] = bitrate /\ \A j \in 1..(i - 1) : steps[j] # bitrate
    ELSE 0

\* _next_bitrate
NextBitrate(pr, bitrate) ==
    LET idx == IndexOf(pr.bitrate_steps, bitrate)
    IN  IF idx = 0 THEN bitrate
        ELSE IF idx + 1 <= Len(pr.bitrate_steps) THEN pr.bitrate_steps[idx + 1]
        ELSE bitrate

(***************************************************************************)
(* FaxSimulation objects.  pc: "new" (not constructed), "ready" (after     *)
(* __init__), "walk" (inside the for loop of run, i = next list position), *)
(* "close" (after the loop), "done" (run returned), "raised" (run raised). *)
(***************************************************************************)
NewSim ==
    [pc |-> "new", seed |-> 0, draws |-> 0, events |-> <<>>, current_bitrate |-> 0,
     steps |-> 0, timestamp |-> 0, i |-> 0]

\* Sum of f over the finite set S.
RECURSIVE SumOver(_, _)
SumOver(S, f) ==
    IF S = {} THEN 0
    ELSE LET x == CHOOSE y \in S : TRUE IN f[x] + SumOver(S \ {x}, f)

\* Faulty variant of DrawPosition: one process-global generator shared by all objects.
DrawPositionGlobal(p) == SumOver(Sims, [q \in Sims |-> sim[q].draws]) + 1

\* Faulty variant of DrawPosition: the objects built with the same seed share one generator.
DrawPositionPerSeed(p) ==
    SumOver({q \in Sims : sim[q].seed = sim[p].seed}, [q \in Sims |-> sim[q].draws]) + 1

\* self._random = Random(seed): every object owns its generator, so the draw of
\* object p reads the position after the draws p itself has made.
DrawPosition(p) == sim[p].draws + 1

\* self._random.uniform(-2.0, 2.0) returns noise: Random(seed) is a fixed function
\* of the seed and the position, whatever its values are.
Uniform(p, noise) ==
    /\ twister[sim[p].seed][DrawPosition(p)] \subseteq {noise}
    /\ twister' = [twister EXCEPT ![sim[p].seed][DrawPosition(p)] = {noise}]

SimInit ==
    /\ profile \in FaxProfile
    /\ twister = [seed \in Seeds |-> [k \in 1..MaxDraws |-> {}]]
    /\ sim = [p \in Sims |-> NewSim]
    /\ lc = Off /\ al = Off /\ vd = Off /\ vp = Off

\* FaxSimulation.__init__(profile, seed)
Construct(p) ==
    /\ sim[p].pc = "new"
    /\ \E seed \in Seeds :
          sim' = [sim EXCEPT ![p] = [NewSim EXCEPT !.pc = "ready", !.seed = seed]]
    /\ UNCHANGED <<profile, twister, lc, al, vd, vp>>

\* run(), lines 91-94: the locals before the loop.
RunBegin(p) ==
    /\ sim[p].pc = "ready"
    /\ sim' = [sim EXCEPT ![p] =
                 [@ EXCEPT !.pc = "walk",
                           !.events = GeneratePhaseBEvents(profile),
                           !.current_bitrate = profile.max_bitrate,
                           !.steps = 0,
                           !.timestamp = 420,
                           !.i = 1]]
    /\ UNCHANGED <<profile, twister, lc, al, vd, vp>>

\* run(), lines 96-115: one evaluation of the for statement: either the body
\* for the next bitrate (TCF, then CFR and break, or FALLBACK), or, when the
\* list is exhausted, the else clause (forced accept).
Walk(p) ==
    LET s == sim[p]
        steps == profile.bitrate_steps
    IN
    /\ s.pc = "walk"
    /\ IF s.i <= Len(steps)
       THEN LET bitrate == steps[s.i]
                ts == s.timestamp + 100
            IN  IF MaxOf(steps) = 0
                THEN \* bitrate / max(...) raises ZeroDivisionError
                     /\ sim' = [sim EXCEPT ![p] = [s EXCEPT !.pc = "raised", !.timestamp = ts]]
                     /\ UNCHANGED twister
                ELSE \E noise \in NoiseValues :
                     LET margin == MarginFrac(profile, bitrate, noise)
                         tcf == NegotiationEvent(ts, profile.standard, "TCF",
                                    <<"margin", FormatMargin(margin), bitrate>>)
                     IN  /\ Uniform(p, noise)
                         /\ IF MarginAccepted(margin)
                            THEN sim' = [sim EXCEPT ![p] =
                                  [s EXCEPT !.pc = "close",
                                            !.draws = @ + 1,
                                            !.timestamp = ts,
                                            !.events = s.events \o <<tcf,
                                                NegotiationEvent(ts + 500, "PHASE_B", "CFR", "ok")>>,
                                            !.current_bitrate = AcceptedBitrate(profile, bitrate)]]
                            ELSE sim' = [sim EXCEPT ![p] =
                                  [s EXCEPT !.draws = @ + 1,
                                            !.timestamp = ts,
                                            !.steps = @ + 1,
                                            !.i = @ + 1,
                                            !.events = s.events \o <<tcf,
                                                NegotiationEvent(FallbackTimestamp(ts), profile.standard, "FALLBACK",
                                                    <<bitrate, NextBitrate(profile, bitrate)>>)>>]]
       ELSE /\ IF Len(steps) = 0
               THEN \* self.profile.bitrate_steps[-1] raises IndexError
                    sim' = [sim EXCEPT ![p] = [s EXCEPT !.pc = "raised"]]
               ELSE sim' = [sim EXCEPT ![p] =
                       [s EXCEPT !.pc = "close",
                                 !.current_bitrate = steps[Len(steps)],
                                 !.events = Append(s.events,
                                     NegotiationEvent(s.timestamp + 500, "PHASE_B", "CFR",
                                                      "forced accept"))]]
            /\ UNCHANGED twister
    /\ UNCHANGED <<profile, lc, al, vd, vp>>

\* run(), lines 117-127: START, MCF and the returned SimulationResult.
Close(p) ==
    LET s == sim[p]
    IN
    /\ s.pc = "close"
    /\ sim' = [sim EXCEPT ![p] =
                 [s EXCEPT !.pc = "done",
                           !.events = s.events \o
                              <<NegotiationEvent(s.timestamp + 1000, "PHASE_C", "START",
                                    <<"ecm", profile.ecm_block_bytes>>),
                                NegotiationEvent(s.timestamp + 3000, "PHASE_D", "MCF",
                                    "retransmits=0")>>]]
    /\ UNCHANGED <<profile, twister, lc, al, vd, vp>>

SimNext == \E p \in Sims : Construct(p) \/ RunBegin(p) \/ Walk(p) \/ Close(p)

SimSpec == SimInit /\ [][SimNext]_vars

\* The SimulationResult returned by run() of object p (defined when pc = "done").
SimulationResult(p) ==
    [events |-> sim[p].events,
     final_bitrate |-> sim[p].current_bitrate,
     fallback_steps |-> sim[p].steps,
     rng_seed |-> sim[p].seed]

(***************************************************************************)
(* run() executed alone on a fresh FaxSimulation(profile, seed): the k-th  *)
(* iteration of the loop makes the k-th draw of Random(seed).              *)
(***************************************************************************)
\* The locals of run() before the loop (lines 91-94).
RunAloneStart(pr) ==
    [events |-> GeneratePhaseBEvents(pr), current_bitrate |-> pr.max_bitrate,
     steps |-> 0, timestamp |-> 420, known |-> TRUE]

\* The loop of run() from its i-th iteration on (lines 96-115); known is FALSE
\* when the stream of Random(seed) has not been observed that far.
RECURSIVE RunAloneFrom(_, _, _, _)
RunAloneFrom(pr, seed, i, r) ==
    IF i > Len(pr.bitrate_steps)
    THEN [r EXCEPT !.current_bitrate = pr.bitrate_steps[Len(pr.bitrate_steps)],
                   !.events = Append(@, NegotiationEvent(r.timestamp + 500, "PHASE_B",
                                                         "CFR", "forced accept"))]
    ELSE IF twister[seed][i] = {} THEN [r EXCEPT !.known = FALSE]
    ELSE LET bitrate == pr.bitrate_steps[i]
             ts == r.timestamp + 100
             noise == CHOOSE n \in twister[seed][i] : TRUE
             margin == MarginFrac(pr, bitrate, noise)
             tcf == NegotiationEvent(ts, pr.standard, "TCF",
                                     <<"margin", FormatMargin(margin), bitrate>>)
         IN  IF MarginAccepted(margin)
             THEN [r EXCEPT !.timestamp = ts,
                            !.events = @ \o <<tcf, NegotiationEvent(ts + 500, "PHASE_B",
                                                                    "CFR", "ok")>>,
                            !.current_bitrate = AcceptedBitrate(pr, bitrate)]
             ELSE RunAloneFrom(pr, seed, i + 1,
                      [r EXCEPT !.timestamp = ts,
                                !.steps = @ + 1,
                                !.events = @ \o <<tcf,
                                    NegotiationEvent(FallbackTimestamp(ts), pr.standard,
                                        "FALLBACK", <<bitrate, NextBitrate(pr, bitrate)>>)>>])

\* The SimulationResult of FaxSimulation(pr, seed).run() executed alone
\* (lines 117-127 after the loop).
RunAlone(pr, seed) ==
    LET r == RunAloneFrom(pr, seed, 1, RunAloneStart(pr))
    IN  [known |-> r.known,
         result |-> [events |-> r.events \o
                        <<NegotiationEvent(r.timestamp + 1000, "PHASE_C", "START",
                                           <<"ecm", pr.ecm_block_bytes>>),
                          NegotiationEvent(r.timestamp + 3000, "PHASE_D", "MCF",
                                           "retransmits=0")>>,
                     final_bitrate |-> r.current_bitrate,
                     fallback_steps |-> r.steps,
                     rng_seed |-> seed]]

(***************************************************************************)
(* Fractions: Python floats that are ratios of small integers.             *)
(***************************************************************************)
RECURSIVE GCD(_, _)
GCD(a, b) == IF b = 0 THEN a ELSE GCD(b, a % b)

\* n / d in lowest terms (d > 0).
Frac(n, d) ==
    LET g == GCD(Abs(n), d)
    IN  [num |-> n \div g, den |-> d \div g]

FracLt(a, b) == a.num * b.den < b.num * a.den

FracLe(a, b) == a.num * b.den <= b.num * a.den

FracEq(a, b) == a.num * b.den = b.num * a.den

FracAdd(a, b) == Frac(a.num * b.den + b.num * a.den, a.den * b.den)

FracMul(a, b) == Frac(a.num * b.num, a.den * b.den)

\* The nearest integer to a fraction (ties to even), as round() and ".2f" give it.
RoundFrac(f) ==
    LET q == f.num \div f.den
        r == f.num - q * f.den
    IN  IF 2 * r < f.den THEN q
        ELSE IF 2 * r > f.den THEN q + 1
        ELSE IF q % 2 = 0 THEN q ELSE q + 1

\* _round_or_none(value) of a finite value: round(value, 4), in 1/10000.
Round4(f) == RoundFrac(Frac(10000 * f.num, f.den))

(***************************************************************************)
(* lines.py: LineComparison and compare_sequences.  A line is the sequence *)
(* of its characters; <<>> is the empty line "".                           *)
(***************************************************************************)
MaxLines == 3           \* longest line sequence given to compare_sequences

DEFAULT_MAX_MISMATCHES == 10

EmptyLine == <<>>

LineValues == {EmptyLine, <<"a">>, <<"b">>}

\* Faulty variant of LineAt: a missing line never equals a line of the other sequence.
LineAtUnpadded(lns, index) == IF index < Len(lns) THEN lns[index + 1] ELSE <<"<missing>">>

\* reference_lines[index] if index < len(reference_lines) else ""   (index from 0)
LineAt(lns, index) == IF index < Len(lns) THEN lns[index + 1] ELSE EmptyLine

\* Faulty variant of TotalLines: only the positions both sequences have.
TotalLinesMin(ref_lines, cand_lines) == Min2(Len(ref_lines), Len(cand_lines))

\* compare_sequences, line 40
TotalLines(ref_lines, cand_lines) == Max2(Len(ref_lines), Len(cand_lines))

\* compare_sequences, lines 44-49: the loop body for position acc.index.
CompareBody(acc, ref_lines, cand_lines, max_mismatches) ==
    LET ref_line == LineAt(ref_lines, acc.index)
        cand_line == LineAt(cand_lines, acc.index)
    IN  [index |-> acc.index + 1,
         matching |-> IF ref_line = cand_line THEN acc.matching + 1 ELSE acc.matching,
         mismatched |->
            IF ref_line # cand_line /\ Len(acc.mismatched) < max_mismatches
            THEN Append(acc.mismatched,
                        [line |-> acc.index + 1, ref |-> ref_line, cand |-> cand_line])
            ELSE acc.mismatched]

\* LineComparison(total_lines, matching_lines, mismatched)
LineComparison(total, matching, mismatched) ==
    [total_lines |-> total, matching_lines |-> matching, mismatched |-> mismatched]

CompareStart == [index |-> 0, matching |-> 0, mismatched |-> <<>>]

RECURSIVE CompareFrom(_, _, _, _)
CompareFrom(acc, ref_lines, cand_lines, max_mismatches) ==
    IF acc.index >= TotalLines(ref_lines, cand_lines)
    THEN LineComparison(TotalLines(ref_lines, cand_lines), acc.matching, acc.mismatched)
    ELSE CompareFrom(CompareBody(acc, ref_lines, cand_lines, max_mismatches),
                     ref_lines, cand_lines, max_mismatches)

\* compare_sequences(reference_lines, candidate_lines, max_mismatches)
CompareSequences(ref_lines, cand_lines, max_mismatches) ==
    CompareFrom(CompareStart, ref_lines, cand_lines, max_mismatches)

\* LineComparison.mismatch_count
MismatchCount(c) == c.total_lines - c.matching_lines

\* LineComparison.match_ratio
MatchRatio(c) ==
    IF c.total_lines = 0 THEN Frac(1, 1) ELSE Frac(c.matching_lines, c.total_lines)

\* Faulty variant of MismatchRatio: the share of matching lines.
MismatchRatioInverted(c) ==
    IF c.total_lines = 0 THEN Frac(0, 1) ELSE Frac(c.matching_lines, c.total_lines)

\* LineComparison.mismatch_ratio
MismatchRatio(c) ==
    IF c.total_lines = 0 THEN Frac(0, 1) ELSE Frac(MismatchCount(c), c.total_lines)

\* Faulty variant of LinesStatus: strict comparisons.
LinesStatusStrict(c, warn_ratio, fail_ratio) ==
    IF c.total_lines = 0 THEN "WARN"
    ELSE IF FracLt(fail_ratio, MismatchRatio(c)) THEN "FAIL"
    ELSE IF FracLt(warn_ratio, MismatchRatio(c)) THEN "WARN"
    ELSE "PASS"

\* _run_metrics, lines 130-140: line_status
LinesStatus(c, warn_ratio, fail_ratio) ==
    IF c.total_lines = 0 THEN "WARN"
    ELSE IF FracLe(fail_ratio, MismatchRatio(c)) THEN "FAIL"
    ELSE IF FracLe(warn_ratio, MismatchRatio(c)) THEN "WARN"
    ELSE "PASS"

\* lineMismatchWarnRatio / lineMismatchFailRatio of a policy: the defaults
\* (0.1, 0.3), the test's (1.0, 1.0), and ratios small sequences can hit.
DefaultLineRatios == [warn |-> Frac(1, 10), fail |-> Frac(3, 10)]

LineRatioPairs ==
    {DefaultLineRatios,
     [warn |-> Frac(1, 1), fail |-> Frac(1, 1)],
     [warn |-> Frac(1, 3), fail |-> Frac(2, 3)],
     [warn |-> Frac(1, 2), fail |-> Frac(1, 2)],
     [warn |-> Frac(2, 3), fail |-> Frac(1, 3)]}

MaxMismatchesValues == {1, DEFAULT_MAX_MISMATCHES}

(***************************************************************************)
(* LinesSpec: compare_sequences run position by position, then the LINES   *)
(* status rule of _run_metrics applied to its result.                      *)
(***************************************************************************)
LinesInit ==
    /\ \E r \in SeqsOf(LineValues, 0, MaxLines), c \in SeqsOf(LineValues, 0, MaxLines),
          mm \in MaxMismatchesValues, ratios \in LineRatioPairs :
          lc = [pc |-> "loop", reference_lines |-> r, candidate_lines |-> c,
                max_mismatches |-> mm, ratios |-> ratios,
                acc |-> CompareStart,
                result |-> LineComparison(0, 0, <<>>), status |-> "none"]
    /\ profile = 0 /\ twister = 0 /\ sim = 0
    /\ al = Off /\ vd = Off /\ vp = Off

\* for index in range(total): one iteration
CompareLoop ==
    /\ lc.pc = "loop"
    /\ lc.acc.index < TotalLines(lc.reference_lines, lc.candidate_lines)
    /\ lc' = [lc EXCEPT !.acc = CompareBody(lc.acc, lc.reference_lines, lc.candidate_lines,
                                            lc.max_mismatches)]
    /\ UNCHANGED <<simVars, al, vd, vp>>

\* return LineComparison(...)
CompareReturn ==
    /\ lc.pc = "loop"
    /\ lc.acc.index >= TotalLines(lc.reference_lines, lc.candidate_lines)
    /\ lc' = [lc EXCEPT !.pc = "compared",
                        !.result = LineComparison(
                            TotalLines(lc.reference_lines, lc.candidate_lines),
                            lc.acc.matching, lc.acc.mismatched)]
    /\ UNCHANGED <<simVars, al, vd, vp>>

\* _run_metrics, lines 130-140
LinesMetric ==
    /\ lc.pc = "compared"
    /\ lc' = [lc EXCEPT !.pc = "done",
                        !.status = LinesStatus(lc.result, lc.ratios.warn, lc.ratios.fail)]
    /\ UNCHANGED <<simVars, al, vd, vp>>

LinesNext == CompareLoop \/ CompareReturn \/ LinesMetric

LinesSpec == LinesInit /\ [][LinesNext]_vars

(***************************************************************************)
(* loaders.py: DocumentPage and DocumentData.  A page is                   *)
(*   [index, text_lines, image]; image is NoImage (None) or a pixel grid   *)
(* (rows of 0..255).  The loaders give a page text lines or a pixel grid,  *)
(* never both, number the pages of a document 0, 1, ... and decode pixels  *)
(* only when numpy is importable.                                          *)
(***************************************************************************)
MaxPages == 3           \* most pages of a document given to align_documents

NoImage == [present |-> FALSE, rows |-> <<>>]

Image(rows) == [present |-> TRUE, rows |-> rows]

DocumentPage(index, text_lines, image) ==
    [index |-> index, text_lines |-> text_lines, image |-> image]

\* Page contents of the aligner's inputs: no text and no pixels, one empty line,
\* one line, and (with numpy) a one-pixel image.
PageTexts == {<<>>, <<EmptyLine>>, <<<<"a">>>>}

PageImages == {Image(<<<<0>>>>)}

PageContents(np) ==
    {[text_lines |-> tl, image |-> NoImage] : tl \in PageTexts}
        \cup (IF np THEN {[text_lines |-> <<>>, image |-> im] : im \in PageImages} ELSE {})

\* The page lists of documents of n pages, numbered as the loaders number them.
PageLists(np, n) ==
    {[k \in 1..n |-> DocumentPage(k - 1, c[k].text_lines, c[k].image)] :
        c \in [1..n -> PageContents(np)]}

Documents(np) == UNION {PageLists(np, n) : n \in 0..MaxPages}

\* The content of a page (what two pages with "identical content" share).
Content(page) == [text_lines |-> page.text_lines, image |-> page.image]

(***************************************************************************)
(* align.py: page similarity                                               *)
(***************************************************************************)
NoScore == [some |-> FALSE, value |-> Frac(0, 1)]

Score(f) == [some |-> TRUE, value |-> f]

\* max(0.0, min(1.0, x))
Clamp01(f) ==
    IF f.num < 0 THEN Frac(0, 1) ELSE IF f.num > f.den THEN Frac(1, 1) ELSE f

Height(image) == Len(image.rows)

Width(image) == IF Len(image.rows) = 0 THEN 0 ELSE Len(image.rows[1])

\* sum over the h x w crop of |ref - cand|
RECURSIVE AbsDiffSum(_, _, _, _, _)
AbsDiffSum(a, b, h, w, k) ==
    IF k >= h * w THEN 0
    ELSE LET y == (k \div w) + 1
             x == (k % w) + 1
         IN  Abs(a.rows[y][x] - b.rows[y][x]) + AbsDiffSum(a, b, h, w, k + 1)

\* _image_similarity: None, or 1 - mean|ref - cand| / 255 clamped to [0, 1]
ImageSimilarity(np, reference, candidate) ==
    IF ~np \/ ~reference.image.present \/ ~candidate.image.present THEN NoScore
    ELSE LET h == Min2(Height(reference.image), Height(candidate.image))
             w == Min2(Width(reference.image), Width(candidate.image))
         IN  IF h = 0 \/ w = 0 THEN NoScore
             ELSE Score(Clamp01(
                     Frac(255 * h * w - AbsDiffSum(reference.image, candidate.image, h, w, 0),
                          255 * h * w)))

\* The scores list of _page_similarity, lines 147-159.
ContentScores(np, reference, candidate) ==
    LET text == IF Len(reference.text_lines) > 0 \/ Len(candidate.text_lines) > 0
                THEN <<MatchRatio(CompareSequences(reference.text_lines, candidate.text_lines,
                                                   DEFAULT_MAX_MISMATCHES))>>
                ELSE <<>>
        img == ImageSimilarity(np, reference, candidate)
        scores == IF img.some THEN Append(text, img.value) ELSE text
    IN  IF Len(scores) = 0 THEN <<Frac(1, 2)>> ELSE scores

RECURSIVE FracSum(_)
FracSum(s) == IF Len(s) = 0 THEN Frac(0, 1) ELSE FracAdd(s[1], FracSum(Tail(s)))

\* sum(scores) / len(scores)
ContentScore(np, reference, candidate) ==
    LET scores == ContentScores(np, reference, candidate)
    IN  FracMul(FracSum(scores), Frac(1, Len(scores)))

\* Faulty variant of OrderScore: the candidate position counted from 1.
OrderScoreOffByOne(ref_index, cand_index, total_ref, total_cand) ==
    LET d == Max2(Max2(total_ref, total_cand), 1)
        pen == Min2(Abs(ref_index - (cand_index + 1)), d)
    IN  Frac(d - pen, d)

\* lines 161-162: 1.0 - min(1.0, abs(ref_index - cand_index) / max(total_ref, total_cand, 1))
OrderScore(ref_index, cand_index, total_ref, total_cand) ==
    LET d == Max2(Max2(total_ref, total_cand), 1)
        pen == Min2(Abs(ref_index - cand_index), d)
    IN  Frac(d - pen, d)

\* _page_similarity: 0.8 * content_score + 0.2 * order_score, clamped
PageSimilarity(np, reference, candidate, ref_index, cand_index, total_ref, total_cand) ==
    Clamp01(FracAdd(FracMul(ContentScore(np, reference, candidate), Frac(8, 10)),
                    FracMul(OrderScore(ref_index, cand_index, total_ref, total_cand),
                            Frac(2, 10))))

\* _similarity_matrix: similarity[ref_index][cand_index], indices from 0
SimilarityMatrix(np, reference_pages, candidate_pages) ==
    [i \in 0..(Len(reference_pages) - 1) |->
        [j \in 0..(Len(candidate_pages) - 1) |->
            PageSimilarity(np, reference_pages[i + 1], candidate_pages[j + 1], i, j,
                           Len(reference_pages), Len(candidate_pages))]]

(***************************************************************************)
(* align.py: align_documents.  A warning string is modelled by its kind    *)
(* and the numbers formatted into it.                                      *)
(***************************************************************************)
DEFAULT_LOW_CONFIDENCE == Frac(6, 10)      \* low_confidence_threshold = 0.6

\* The test suite also calls align_documents with 0.95.
Thresholds == {DEFAULT_LOW_CONFIDENCE, Frac(95, 100)}

Warning(kind, args) == [kind |-> kind, args |-> args]

PagePair(index, reference, candidate, confidence) ==
    [index |-> index, reference |-> reference, candidate |-> candidate,
     confidence |-> confidence]

\* sorted(S) of a set of ints
RECURSIVE SortedSeq(_)
SortedSeq(S) ==
    IF S = {} THEN <<>>
    ELSE LET m == CHOOSE x \in S : \A y \in S : x <= y
         IN  <<m>> \o SortedSeq(S \ {m})

\* _pair_by_index
PairByIndex(reference_pages, candidate_pages) ==
    [k \in 1..Min2(Len(reference_pages), Len(candidate_pages)) |->
        PagePair(k - 1, reference_pages[k], candidate_pages[k], Frac(1, 1))]

\* Faulty variant of BestRef: the unmatched reference page at the candidate's own position
\* when there is one.
BestRefByPosition(unmatched_refs, similarity, cand_index) ==
    IF cand_index \in unmatched_refs THEN cand_index
    ELSE CHOOSE i \in unmatched_refs : \A k \in unmatched_refs : i <= k

\* Faulty variant of BestRef: the first unmatched reference page, whatever its score.
BestRefFirst(unmatched_refs, similarity, cand_index) ==
    CHOOSE i \in unmatched_refs : \A k \in unmatched_refs : i <= k

\* max(unmatched_refs, key=lambda idx: similarity[idx][cand_index]): the first
\* maximal element in iteration order, which for a set of small ints is ascending.
BestRef(unmatched_refs, similarity, cand_index) ==
    CHOOSE i \in unmatched_refs :
        \A k \in unmatched_refs :
            \/ FracLt(similarity[k][cand_index], similarity[i][cand_index])
            \/ (FracEq(similarity[k][cand_index], similarity[i][cand_index]) /\ i <= k)

NoOverride == -1

\* What _prompt_manual_choice can return: None without a terminal (or with
\* QAFAX_DISABLE_PROMPTS=1); with one, None (EOF, invalid or unavailable entry),
\* the top suggestion (empty entry) or any available index the operator types.
PromptResults(interactive, unmatched_refs) ==
    IF interactive THEN {NoOverride} \cup unmatched_refs ELSE {NoOverride}

\* Faulty variant of IsLow: a score equal to the threshold counts as low.
IsLowInclusive(chosen_score, low_confidence_threshold) ==
    FracLe(chosen_score, low_confidence_threshold)

\* align_documents: chosen_score < low_confidence_threshold
IsLow(chosen_score, low_confidence_threshold) ==
    FracLt(chosen_score, low_confidence_threshold)

\* State of the loop of align_documents before its first iteration (lines 53-55).
AlignStart(reference_pages) ==
    [unmatched_refs |-> 0..(Len(reference_pages) - 1), warnings |-> <<>>, pairs |-> <<>>,
     cand_index |-> 0, broke |-> FALSE]

\* Faulty variant of AlignBody: the chosen reference page stays available and the
\* operator is never asked.
AlignBodyNoRemove(st, similarity, reference_pages, candidate_pages, threshold, override) ==
    IF st.unmatched_refs = {}
    THEN [st EXCEPT !.warnings = Append(@, Warning("extra", <<st.cand_index>>)),
                    !.broke = TRUE]
    ELSE LET best_ref == BestRef(st.unmatched_refs, similarity, st.cand_index)
         IN  [st EXCEPT !.pairs = Append(@, PagePair(Len(st.pairs), reference_pages[best_ref + 1],
                                              candidate_pages[st.cand_index + 1],
                                              similarity[best_ref][st.cand_index])),
                        !.cand_index = @ + 1]

\* align_documents, lines 57-93: the loop body for candidate page st.cand_index;
\* override is what _prompt_manual_choice returns if it is called.
AlignBody(st, similarity, reference_pages, candidate_pages, threshold, override) ==
    IF st.unmatched_refs = {}
    THEN [st EXCEPT !.warnings = Append(@, Warning("extra", <<st.cand_index>>)),
                    !.broke = TRUE]
    ELSE LET best_ref == BestRef(st.unmatched_refs, similarity, st.cand_index)
             best_score == similarity[best_ref][st.cand_index]
             low == IsLow(best_score, threshold)
             overridden == low /\ override # NoOverride /\ override \in st.unmatched_refs
             chosen_ref == IF overridden THEN override ELSE best_ref
             chosen_score == similarity[chosen_ref][st.cand_index]
             warned == IF overridden
                         THEN Append(st.warnings,
                                     Warning("override", <<st.cand_index, chosen_ref>>))
                       ELSE IF low
                         THEN Append(st.warnings,
                                     Warning("low", <<st.cand_index,
                                         RoundFrac(Frac(100 * best_score.num, best_score.den))>>))
                       ELSE st.warnings
         IN  [st EXCEPT !.warnings = warned,
                        !.pairs = Append(@, PagePair(Len(st.pairs), reference_pages[chosen_ref + 1],
                                              candidate_pages[st.cand_index + 1], chosen_score)),
                        !.unmatched_refs = @ \ {chosen_ref},
                        !.cand_index = @ + 1]

\* pairs.sort(key=lambda pair: pair.reference.index): stable insertion
RECURSIVE InsertPair(_, _)
InsertPair(sorted, pair) ==
    IF Len(sorted) = 0 THEN <<pair>>
    ELSE IF sorted[Len(sorted)].reference.index <= pair.reference.index
         THEN Append(sorted, pair)
         ELSE Append(InsertPair(SubSeq(sorted, 1, Len(sorted) - 1), pair), sorted[Len(sorted)])

RECURSIVE SortPairs(_)
SortPairs(pairs) ==
    IF Len(pairs) = 0 THEN <<>>
    ELSE InsertPair(SortPairs(SubSeq(pairs, 1, Len(pairs) - 1)), pairs[Len(pairs)])

\* Faulty variant of Renumber: the pairs keep the numbers given in matching order.
RenumberKept(pairs) == pairs

\* lines 106-107: pair.index = new_index
Renumber(pairs) == [k \in 1..Len(pairs) |-> [pairs[k] EXCEPT !.index = k - 1]]

\* Faulty variant of AlignFinish: the page counts are compared only when every
\* reference page has been matched.
AlignFinishElif(st, reference_pages, candidate_pages) ==
    LET w == IF st.unmatched_refs # {}
             THEN Append(st.warnings,
                         Warning("unmatched", <<Cardinality(st.unmatched_refs)>>
                                              \o SortedSeq(st.unmatched_refs)))
             ELSE IF Len(reference_pages) # Len(candidate_pages)
             THEN Append(st.warnings,
                         Warning("count", <<Len(reference_pages), Len(candidate_pages),
                                            Len(st.pairs)>>))
             ELSE st.warnings
    IN  [pairs |-> Renumber(SortPairs(st.pairs)), warnings |-> w]

\* align_documents, lines 95-109: the warnings after the loop, the sort and the result.
AlignFinish(st, reference_pages, candidate_pages) ==
    LET w1 == IF st.unmatched_refs # {}
              THEN Append(st.warnings,
                          Warning("unmatched", <<Cardinality(st.unmatched_refs)>>
                                               \o SortedSeq(st.unmatched_refs)))
              ELSE st.warnings
        w2 == IF Len(reference_pages) # Len(candidate_pages)
              THEN Append(w1, Warning("count", <<Len(reference_pages), Len(candidate_pages),
                                                 Len(st.pairs)>>))
              ELSE w1
    IN  [pairs |-> Renumber(SortPairs(st.pairs)), warnings |-> w2]

\* Faulty variant of AlignDegenerate: the page counts are not compared.
AlignDegenerateSilent(reference_pages, candidate_pages) ==
    [pairs |-> PairByIndex(reference_pages, candidate_pages), warnings |-> <<>>]

\* align_documents, lines 44-50: either document has no pages.
AlignDegenerate(reference_pages, candidate_pages) ==
    [pairs |-> PairByIndex(reference_pages, candidate_pages),
     warnings |-> IF Len(reference_pages) # Len(candidate_pages)
                  THEN <<Warning("count-ignored",
                                 <<Len(reference_pages), Len(candidate_pages)>>)>>
                  ELSE <<>>]

\* if not reference.pages or not candidate.pages
IsDegenerate(reference_pages, candidate_pages) ==
    Len(reference_pages) = 0 \/ Len(candidate_pages) = 0

(***************************************************************************)
(* AlignSpec: one call of align_documents, one loop iteration per step.    *)
(***************************************************************************)
AlignInit ==
    /\ \E np \in BOOLEAN, interactive \in BOOLEAN, threshold \in Thresholds :
       \E reference \in Documents(np), candidate \in Documents(np) :
          al = [pc |-> "call", np |-> np, interactive |-> interactive,
                threshold |-> threshold, reference |-> reference, candidate |-> candidate,
                similarity |-> <<>>, st |-> AlignStart(reference),
                result |-> [pairs |-> <<>>, warnings |-> <<>>]]
    /\ profile = 0 /\ twister = 0 /\ sim = 0
    /\ lc = Off /\ vd = Off /\ vp = Off

\* lines 44-55
AlignBegin ==
    /\ al.pc = "call"
    /\ IF IsDegenerate(al.reference, al.candidate)
       THEN al' = [al EXCEPT !.pc = "done",
                             !.result = AlignDegenerate(al.reference, al.candidate)]
       ELSE al' = [al EXCEPT !.pc = "loop",
                             !.similarity = SimilarityMatrix(al.np, al.reference, al.candidate)]
    /\ UNCHANGED <<simVars, lc, vd, vp>>

\* lines 57-93: one iteration of the for loop
AlignLoop ==
    /\ al.pc = "loop"
    /\ ~al.st.broke
    /\ al.st.cand_index < Len(al.candidate)
    /\ \E override \in PromptResults(al.interactive, al.st.unmatched_refs) :
          al' = [al EXCEPT !.st = AlignBody(al.st, al.similarity, al.reference, al.candidate,
                                            al.threshold, override)]
    /\ UNCHANGED <<simVars, lc, vd, vp>>

\* lines 95-109
AlignReturn ==
    /\ al.pc = "loop"
    /\ al.st.broke \/ al.st.cand_index >= Len(al.candidate)
    /\ al' = [al EXCEPT !.pc = "done",
                        !.result = AlignFinish(al.st, al.reference, al.candidate)]
    /\ UNCHANGED <<simVars, lc, vd, vp>>

AlignNext == AlignBegin \/ AlignLoop \/ AlignReturn

AlignSpec == AlignInit /\ [][AlignNext]_vars

\* align_documents without a terminal, run to completion.
RECURSIVE AlignRun(_, _, _, _, _)
AlignRun(st, similarity, reference_pages, candidate_pages, threshold) ==
    IF st.broke \/ st.cand_index >= Len(candidate_pages)
    THEN AlignFinish(st, reference_pages, candidate_pages)
    ELSE AlignRun(AlignBody(st, similarity, reference_pages, candidate_pages, threshold,
                            NoOverride),
                  similarity, reference_pages, candidate_pages, threshold)

AlignDocuments(np, reference_pages, candidate_pages, threshold) ==
    IF IsDegenerate(reference_pages, candidate_pages)
    THEN AlignDegenerate(reference_pages, candidate_pages)
    ELSE AlignRun(AlignStart(reference_pages),
                  SimilarityMatrix(np, reference_pages, candidate_pages),
                  reference_pages, candidate_pages, threshold)

(***************************************************************************)
(* PermSpec: align_documents called on a reference document and a          *)
(* candidate document holding the same pages in some order (the same order *)
(* included).                                                              *)
(***************************************************************************)
MaxPermPages == 3       \* most pages of a document in PermSpec

PermTexts ==
    {<<>>, <<EmptyLine>>, <<<<"a">>>>, <<<<"b">>>>, <<<<"a">>, EmptyLine>>, <<<<"a">>, <<"b">>>>}

PermImages == {Image(<<<<0>>>>), Image(<<<<255>>>>)}

PermContents(np) ==
    {[text_lines |-> tl, image |-> NoImage] : tl \in PermTexts}
        \cup (IF np THEN {[text_lines |-> <<>>, image |-> im] : im \in PermImages} ELSE {})

Bijections(n) == {f \in [1..n -> 1..n] : \A a, b \in 1..n : f[a] = f[b] => a = b}

PermInit ==
    /\ \E np \in BOOLEAN, interactive \in BOOLEAN, threshold \in Thresholds,
          n \in 1..MaxPermPages :
       \E c \in [1..n -> PermContents(np)], f \in Bijections(n) :
          LET reference == [k \in 1..n |-> DocumentPage(k - 1, c[k].text_lines, c[k].image)]
              candidate == [k \in 1..n |->
                               DocumentPage(k - 1, c[f[k]].text_lines, c[f[k]].image)]
          IN  al = [pc |-> "call", np |-> np, interactive |-> interactive,
                    threshold |-> threshold, reference |-> reference,
                    candidate |-> candidate,
                    similarity |-> <<>>, st |-> AlignStart(reference),
                    result |-> [pairs |-> <<>>, warnings |-> <<>>]]
    /\ profile = 0 /\ twister = 0 /\ sim = 0
    /\ lc = Off /\ vd = Off /\ vp = Off

PermSpec == PermInit /\ [][AlignNext]_vars

(***************************************************************************)
(* pipeline.py: MetricResult and VerificationPipeline._derive_verdict.     *)
(***************************************************************************)
MaxMetrics == 3         \* longest metric list given to _derive_verdict in VerdictSpec

Statuses == {"PASS", "WARN", "FAIL", "SKIP"}

\* self.hard_metrics / self.warn_metrics, lines 43-44
NewPolicy(hard, warn) == [hard |-> hard, warn |-> warn]

\* Faulty variant of DeriveBody: an empty hard-set makes no metric hard.
DeriveBodyListedOnly(st, metric, policy) ==
    IF metric.status = "FAIL" /\ metric.name \in policy.hard
    THEN [st EXCEPT !.returned = TRUE, !.verdict = "FAIL"]
    ELSE IF metric.status \in {"WARN", "SKIP"} /\ metric.name \in policy.warn
    THEN [st EXCEPT !.verdict = "WARN"]
    ELSE st

\* Faulty variant of DeriveBody: a FAIL is fatal whatever the hard-set names.
DeriveBodyAnyFail(st, metric, policy) ==
    IF metric.status = "FAIL"
    THEN [st EXCEPT !.returned = TRUE, !.verdict = "FAIL"]
    ELSE IF metric.status \in {"WARN", "SKIP"} /\ metric.name \in policy.warn
    THEN [st EXCEPT !.verdict = "WARN"]
    ELSE st

\* Faulty variant of DeriveBody: a FAIL that is not fatal downgrades like WARN and SKIP.
DeriveBodyFailWarns(st, metric, policy) ==
    IF metric.status = "FAIL" /\ (policy.hard = {} \/ metric.name \in policy.hard)
    THEN [st EXCEPT !.returned = TRUE, !.verdict = "FAIL"]
    ELSE IF metric.status \in {"WARN", "SKIP", "FAIL"} /\ metric.name \in policy.warn
    THEN [st EXCEPT !.verdict = "WARN"]
    ELSE st

\* Faulty variant of DeriveBody: a fatal FAIL is recorded but the loop goes on.
DeriveBodyNoReturn(st, metric, policy) ==
    IF metric.status = "FAIL" /\ (policy.hard = {} \/ metric.name \in policy.hard)
    THEN [st EXCEPT !.verdict = "FAIL"]
    ELSE IF metric.status \in {"WARN", "SKIP"} /\ metric.name \in policy.warn
    THEN [st EXCEPT !.verdict = "WARN"]
    ELSE st

\* _derive_verdict, lines 194-197: the loop body for one metric.
DeriveBody(st, metric, policy) ==
    IF metric.status = "FAIL" /\ (policy.hard = {} \/ metric.name \in policy.hard)
    THEN [st EXCEPT !.returned = TRUE, !.verdict = "FAIL"]
    ELSE IF metric.status \in {"WARN", "SKIP"} /\ metric.name \in policy.warn
    THEN [st EXCEPT !.verdict = "WARN"]
    ELSE st

\* line 192: verdict = "PASS"
DeriveStart == [verdict |-> "PASS", returned |-> FALSE]

RECURSIVE DeriveFrom(_, _, _, _)
DeriveFrom(st, metrics, index, policy) ==
    IF st.returned \/ index > Len(metrics) THEN st.verdict
    ELSE DeriveFrom(DeriveBody(st, metrics[index], policy), metrics, index + 1, policy)

\* _derive_verdict(metrics)
DeriveVerdict(metrics, policy) == DeriveFrom(DeriveStart, metrics, 1, policy)

(***************************************************************************)
(* VerdictSpec: _derive_verdict on any list of metric results under any    *)
(* policy.                                                                 *)
(***************************************************************************)
VerdictNames == {"LINES", "SSIM"}

VerdictMetrics == [name : VerdictNames, status : Statuses]

VerdictInit ==
    /\ \E metrics \in SeqsOf(VerdictMetrics, 0, MaxMetrics),
          hard \in SUBSET VerdictNames, warn \in SUBSET VerdictNames :
          vd = [pc |-> "loop", metrics |-> metrics, policy |-> NewPolicy(hard, warn),
                index |-> 1, st |-> DeriveStart, result |-> "none"]
    /\ profile = 0 /\ twister = 0 /\ sim = 0
    /\ lc = Off /\ al = Off /\ vp = Off

\* for metric in metrics: one iteration; the return inside the loop ends the call
DeriveLoop ==
    /\ vd.pc = "loop"
    /\ vd.index <= Len(vd.metrics)
    /\ LET st == DeriveBody(vd.st, vd.metrics[vd.index], vd.policy)
       IN  vd' = [vd EXCEPT !.st = st, !.index = @ + 1,
                            !.pc = IF st.returned THEN "done" ELSE "loop",
                            !.result = IF st.returned THEN st.verdict ELSE @]
    /\ UNCHANGED <<profile, twister, sim, lc, al, vp>>

\* line 198: return verdict
DeriveReturn ==
    /\ vd.pc = "loop"
    /\ vd.index > Len(vd.metrics)
    /\ vd' = [vd EXCEPT !.pc = "done", !.result = vd.st.verdict]
    /\ UNCHANGED <<profile, twister, sim, lc, al, vp>>

VerdictNext == DeriveLoop \/ DeriveReturn

VerdictSpec == VerdictInit /\ [][VerdictNext]_vars

(***************************************************************************)
(* loaders.py: DocumentData.  A document's content is the sequence of its  *)
(* characters; its path and sha256 are left out.  The pipeline is modelled *)
(* for documents none of whose pages carries a pixel array: text files,    *)
(* PDF files rendered without numpy or without pages, and the documents    *)
(* the test suite hands to verify_pair.                                    *)
(***************************************************************************)
DocumentData(content, pages, warnings) ==
    [content |-> content, pages |-> pages, warnings |-> warnings]

\* str.splitlines() of a text whose only line break is "\n"
RECURSIVE SplitLines(_, _, _)
SplitLines(content, index, current) ==
    IF index > Len(content) THEN (IF current = <<>> THEN <<>> ELSE <<current>>)
    ELSE IF content[index] = "\n"
         THEN <<current>> \o SplitLines(content, index + 1, <<>>)
         ELSE SplitLines(content, index + 1, Append(current, content[index]))

\* _decode_lines
DecodeLines(content) == SplitLines(content, 1, <<>>)

\* load_document of a .txt/.log/.csv/.json file, lines 75-78
TextDocument(content) ==
    DocumentData(content, <<DocumentPage(0, DecodeLines(content), NoImage)>>, <<>>)

\* DocumentData.lines
RECURSIVE LinesOfPages(_)
LinesOfPages(pages) ==
    IF Len(pages) = 0 THEN <<>> ELSE pages[1].text_lines \o LinesOfPages(Tail(pages))

\* lines.compare_lines(reference, candidate)
CompareLines(reference, candidate) ==
    CompareSequences(LinesOfPages(reference.pages), LinesOfPages(candidate.pages),
                     DEFAULT_MAX_MISMATCHES)

\* apply_preprocess on a document without pixel arrays: the document is returned
\* as it is; the report warns when numpy is absent (lines 43-48).
ApplyPreprocess(np, document) ==
    [document |-> document,
     warnings |-> IF Len(document.pages) = 0 \/ np THEN <<>>
                  ELSE <<Warning("numpy-unavailable", <<>>)>>]

(***************************************************************************)
(* The metrics of a pair of documents without pixel arrays.  A measure is  *)
(* None, a finite value or inf; a metric's value is None, round(v, 4) in    *)
(* 1/10000, inf or a count.                                                *)
(***************************************************************************)
NoMeasure == [kind |-> "none", f |-> Frac(0, 1)]

Finite(f) == [kind |-> "num", f |-> f]

Infinite == [kind |-> "inf", f |-> Frac(0, 1)]

\* lambda v: v >= threshold
AtLeast(measure, threshold) ==
    measure.kind = "inf" \/ (measure.kind = "num" /\ FracLe(threshold, measure.f))

\* _round_or_none
RoundOrNone(measure) ==
    IF measure.kind = "num" THEN [kind |-> "num", v |-> Round4(measure.f)]
    ELSE [kind |-> measure.kind, v |-> 0]

MetricResult(name, value, status, detail) ==
    [name |-> name, value |-> value, status |-> status, detail |-> detail]

\* _numeric_status
NumericStatus(policy, name, measure, ok) ==
    IF measure.kind = "none" THEN (IF name \in policy.warn THEN "WARN" ELSE "SKIP")
    ELSE IF ok THEN "PASS" ELSE "FAIL"

\* the defaults of the policy's thresholds
SSIM_THRESHOLD == Frac(7, 10)

PSNR_MIN_DB == Frac(18, 1)

SKEW_MAX_DEG == Frac(1, 1)

NOISE_WARN == Frac(12, 100)

OCR_MIN_ACCURACY == Frac(95, 100)

PsnrOf(ratio) == IF FracEq(ratio, Frac(1, 1)) THEN Infinite ELSE Finite(Frac(0, 1))

\* ssim_psnr.compute, numpy present, no page with pixels: the text fallback of
\* lines 44-50 for each zipped page, then the averages of lines 59-60.
PageRatios(reference, candidate) ==
    [k \in 1..Min2(Len(reference.pages), Len(candidate.pages)) |->
        MatchRatio(CompareSequences(reference.pages[k].text_lines,
                                    candidate.pages[k].text_lines,
                                    DEFAULT_MAX_MISMATCHES))]

\* ssim_psnr.compute
SsimPsnr(np, reference, candidate) ==
    IF Len(reference.pages) = 0 \/ Len(candidate.pages) = 0
    THEN [ssim |-> NoMeasure, psnr |-> NoMeasure]
    ELSE IF ~np
    THEN LET ratio == MatchRatio(CompareLines(reference, candidate))
         IN  [ssim |-> Finite(ratio), psnr |-> PsnrOf(ratio)]
    ELSE LET ratios == PageRatios(reference, candidate)
             total == FracSum(ratios)
         IN  [ssim |-> Finite(Frac(total.num, total.den * Len(ratios))),
              psnr |-> IF \E k \in 1..Len(ratios) : FracEq(ratios[k], Frac(1, 1))
                       THEN Infinite ELSE Finite(Frac(0, 1))]

\* skew.estimate_skew_degrees: 0.0 without numpy, without pages or without pixels
EstimateSkewDegrees(np, document) == Frac(0, 1)

\* noise.noise_index, lines 22-29: the share of adjacent content bytes that differ
Transitions(content) ==
    Cardinality({k \in 2..Len(content) : content[k] # content[k - 1]})

\* noise.noise_index
NoiseIndex(np, document) ==
    IF Len(document.pages) = 0 THEN Frac(0, 1)
    ELSE IF np THEN Frac(0, 1)
    ELSE IF Len(document.content) < 2 THEN Frac(0, 1)
    ELSE Frac(Transitions(document.content), Max2(1, Len(document.content) - 1))

\* Faulty variant of Mtf50Proxy: an energy of 0.0 when no page has pixels.
Mtf50ProxyZero(np, document) == Finite(Frac(0, 1))

\* mtf_proxy.mtf50_proxy: None without numpy or without pixels
Mtf50Proxy(np, document) == NoMeasure

\* str.isalnum and str.upper on the characters the documents are written in
Alnum == {"a", "b", "q", "r", "A", "B", "Q", "R"}

Upper(ch) ==
    IF ch = "a" THEN "A" ELSE IF ch = "b" THEN "B"
    ELSE IF ch = "q" THEN "Q" ELSE IF ch = "r" THEN "R" ELSE ch

\* ocr.ocr_accuracy
OcrAccuracy(document) ==
    LET alpha == Cardinality({k \in 1..Len(document.content) : document.content[k] \in Alnum})
        total == Len(document.content)
    IN  [value |-> IF total = 0 THEN Frac(1, 1) ELSE Frac(alpha, total),
         alpha |-> alpha, total |-> total]

\* barcode.KNOWN_TOKENS
KNOWN_TOKENS ==
    {<<"Q", "R">>, <<"B", "A", "R", "C", "O", "D", "E">>,
     <<"C", "O", "D", "E", "1", "2", "8">>, <<"C", "O", "D", "E", "3", "9">>}

\* token in text
Contains(text, token) ==
    \E k \in 0..(Len(text) - Len(token)) : SubSeq(text, k + 1, k + Len(token)) = token

\* barcode.detect_tokens
DetectTokens(document) ==
    LET text == [k \in 1..Len(document.content) |-> Upper(document.content[k])]
    IN  {token \in KNOWN_TOKENS : Contains(text, token)}

(***************************************************************************)
(* pipeline.py: VerificationPipeline._run_metrics and verify_pair.         *)
(***************************************************************************)
\* The policy a pipeline is built from: the hard and warn sets, the line
\* mismatch ratios and the two "required" switches; every other threshold
\* keeps its default.
PipelinePolicy(hard, warn, ratios, ocr_required, barcode_required) ==
    [hard |-> hard, warn |-> warn, ratios |-> ratios,
     ocr_required |-> ocr_required, barcode_required |-> barcode_required]

\* lines 99-110
SsimMetrics(np, policy, reference, candidate) ==
    LET r == SsimPsnr(np, reference, candidate)
    IN  <<MetricResult("SSIM", RoundOrNone(r.ssim),
                       NumericStatus(policy, "SSIM", r.ssim, AtLeast(r.ssim, SSIM_THRESHOLD)),
                       <<>>),
          MetricResult("PSNR", RoundOrNone(r.psnr),
                       NumericStatus(policy, "PSNR", r.psnr, AtLeast(r.psnr, PSNR_MIN_DB)),
                       <<>>)>>

\* lines 112-115
SkewMetric(np, policy, candidate) ==
    LET skew_value == EstimateSkewDegrees(np, candidate)
        magnitude == Frac(Abs(skew_value.num), skew_value.den)
    IN  MetricResult("SKEW", RoundOrNone(Finite(skew_value)),
                     NumericStatus(policy, "SKEW", Finite(magnitude),
                                   FracLe(magnitude, SKEW_MAX_DEG)),
                     <<>>)

\* Faulty variant of NoiseMetric: a noise at or above the limit is WARN under any policy.
NoiseMetricLenient(np, policy, candidate) ==
    LET noise_value == NoiseIndex(np, candidate)
    IN  MetricResult("NOISE", RoundOrNone(Finite(noise_value)),
                     IF FracLe(NOISE_WARN, noise_value) THEN "WARN" ELSE "PASS",
                     <<>>)

\* lines 117-123
NoiseMetric(np, policy, candidate) ==
    LET noise_value == NoiseIndex(np, candidate)
    IN  MetricResult("NOISE", RoundOrNone(Finite(noise_value)),
                     IF FracLe(NOISE_WARN, noise_value)
                     THEN (IF "NOISE" \in policy.warn THEN "WARN" ELSE "FAIL")
                     ELSE "PASS",
                     <<>>)

\* lines 125-128
MtfMetric(np, policy, candidate) ==
    LET mtf_value == Mtf50Proxy(np, candidate)
    IN  MetricResult("MTF", RoundOrNone(mtf_value),
                     NumericStatus(policy, "MTF", mtf_value, FALSE), <<>>)

\* lines 130-154: the detail lists the recorded mismatches and counts the rest
LinesResult(policy, line_comparison) ==
    MetricResult("LINES", RoundOrNone(Finite(MismatchRatio(line_comparison))),
                 LinesStatus(line_comparison, policy.ratios.warn, policy.ratios.fail),
                 [shown |-> line_comparison.mismatched,
                  additional |-> MismatchCount(line_comparison)
                                    - Len(line_comparison.mismatched)])

\* lines 156-167
OcrMetric(policy, candidate) ==
    LET ocr == OcrAccuracy(candidate)
    IN  MetricResult("OCR", RoundOrNone(Finite(ocr.value)),
                     IF ocr.total = 0 /\ ~policy.ocr_required THEN "SKIP"
                     ELSE IF FracLe(OCR_MIN_ACCURACY, ocr.value)
                             \/ (ocr.value.num = 0 /\ ~policy.ocr_required) THEN "PASS"
                     ELSE IF policy.ocr_required THEN "FAIL" ELSE "WARN",
                     <<>>)

\* lines 169-178
BarcodeMetric(policy, candidate) ==
    LET tokens == DetectTokens(candidate)
    IN  MetricResult("BARCODE", [kind |-> "int", v |-> Cardinality(tokens)],
                     IF tokens # {} THEN "PASS"
                     ELSE IF policy.barcode_required THEN "FAIL" ELSE "WARN",
                     <<>>)

\* Faulty variant of AlignmentMetric: the result is appended to every list.
AlignmentMetricAlways(alignment_warnings) ==
    <<MetricResult("ALIGNMENT", [kind |-> "none", v |-> 0], "WARN", alignment_warnings)>>

\* lines 180-188
AlignmentMetric(alignment_warnings) ==
    IF alignment_warnings # <<>>
    THEN <<MetricResult("ALIGNMENT", [kind |-> "none", v |-> 0], "WARN", alignment_warnings)>>
    ELSE <<>>

\* _run_metrics
RunMetrics(np, policy, reference, candidate, line_comparison, alignment_warnings) ==
    SsimMetrics(np, policy, reference, candidate)
        \o <<SkewMetric(np, policy, candidate), NoiseMetric(np, policy, candidate),
             MtfMetric(np, policy, candidate), LinesResult(policy, line_comparison),
             OcrMetric(policy, candidate), BarcodeMetric(policy, candidate)>>
        \o AlignmentMetric(alignment_warnings)

\* Every result align_documents can return: with a terminal the operator's answer
\* to each prompt is free.
RECURSIVE AlignRunAny(_, _, _, _, _, _)
AlignRunAny(interactive, st, similarity, reference_pages, candidate_pages, threshold) ==
    IF st.broke \/ st.cand_index >= Len(candidate_pages)
    THEN {AlignFinish(st, reference_pages, candidate_pages)}
    ELSE UNION {AlignRunAny(interactive,
                            AlignBody(st, similarity, reference_pages, candidate_pages,
                                      threshold, override),
                            similarity, reference_pages, candidate_pages, threshold) :
                override \in PromptResults(interactive, st.unmatched_refs)}

AlignOutcomes(np, interactive, reference_pages, candidate_pages, threshold) ==
    IF IsDegenerate(reference_pages, candidate_pages)
    THEN {AlignDegenerate(reference_pages, candidate_pages)}
    ELSE AlignRunAny(interactive, AlignStart(reference_pages),
                     SimilarityMatrix(np, reference_pages, candidate_pages),
                     reference_pages, candidate_pages, threshold)

\* Faulty variant of Rematerialise: the document keeps its pages.
RematerialiseKept(document, pages) == document

\* verify_pair, lines 53-66: the document restricted to the aligned pages
Rematerialise(document, pages) ==
    DocumentData(document.content, pages, document.warnings)

\* verify_pair, lines 72-78
Notes(ref_warnings, cand_warnings, alignment_warnings) ==
    (IF ref_warnings # <<>> THEN <<Warning("reference", <<Len(ref_warnings)>>)>> ELSE <<>>)
        \o (IF cand_warnings # <<>> THEN <<Warning("candidate", <<Len(cand_warnings)>>)>>
            ELSE <<>>)
        \o alignment_warnings

NoSummary == [reference |-> DocumentData(<<>>, <<>>, <<>>),
              candidate |-> DocumentData(<<>>, <<>>, <<>>),
              metrics |-> <<>>, verdict |-> "none", notes |-> <<>>]

\* A pipeline built from a policy, about to verify the two files it is given.
NewPipeline(np, interactive, policy, reference_file, candidate_file) ==
    [pc |-> "call", np |-> np, interactive |-> interactive, policy |-> policy,
     files |-> [reference |-> reference_file, candidate |-> candidate_file],
     reference |-> reference_file, candidate |-> candidate_file,
     reports |-> [reference |-> <<>>, candidate |-> <<>>],
     page_pairs |-> <<>>, alignment_warnings |-> <<>>,
     line_comparison |-> LineComparison(0, 0, <<>>),
     metrics |-> <<>>, summary |-> NoSummary]

\* verify_pair, lines 47-51: load, preprocess, align
VerifyAlign ==
    /\ vp.pc = "call"
    /\ LET ref == ApplyPreprocess(vp.np, vp.files.reference)
           cand == ApplyPreprocess(vp.np, vp.files.candidate)
       IN  \E res \in AlignOutcomes(vp.np, vp.interactive, ref.document.pages,
                                    cand.document.pages, DEFAULT_LOW_CONFIDENCE) :
              vp' = [vp EXCEPT !.pc = "aligned",
                               !.reference = ref.document,
                               !.candidate = cand.document,
                               !.reports = [reference |-> ref.warnings,
                                            candidate |-> cand.warnings],
                               !.page_pairs = res.pairs,
                               !.alignment_warnings = res.warnings]
    /\ UNCHANGED <<profile, twister, sim, lc, al, vd>>

\* verify_pair, lines 52-70: re-materialise when there are pairs, then score
VerifyScore ==
    /\ vp.pc = "aligned"
    /\ LET reference == IF vp.page_pairs # <<>>
                        THEN Rematerialise(vp.reference,
                                 [k \in 1..Len(vp.page_pairs) |-> vp.page_pairs[k].reference])
                        ELSE vp.reference
           candidate == IF vp.page_pairs # <<>>
                        THEN Rematerialise(vp.candidate,
                                 [k \in 1..Len(vp.page_pairs) |-> vp.page_pairs[k].candidate])
                        ELSE vp.candidate
           line_comparison == CompareLines(reference, candidate)
       IN  vp' = [vp EXCEPT !.pc = "scored",
                            !.reference = reference,
                            !.candidate = candidate,
                            !.line_comparison = line_comparison,
                            !.metrics = RunMetrics(vp.np, vp.policy, reference, candidate,
                                                   line_comparison, vp.alignment_warnings)]
    /\ UNCHANGED <<profile, twister, sim, lc, al, vd>>

\* verify_pair, lines 71-88: the verdict, the notes and the summary
VerifyReturn ==
    /\ vp.pc = "scored"
    /\ vp' = [vp EXCEPT !.pc = "done",
                        !.summary = [reference |-> vp.reference,
                                     candidate |-> vp.candidate,
                                     metrics |-> vp.metrics,
                                     verdict |-> DeriveVerdict(vp.metrics, vp.policy),
                                     notes |-> Notes(vp.reports.reference,
                                                     vp.reports.candidate,
                                                     vp.alignment_warnings)]]
    /\ UNCHANGED <<profile, twister, sim, lc, al, vd>>

PipelineNext == VerifyAlign \/ VerifyScore \/ VerifyReturn

(***************************************************************************)
(* PipelineSpec: verify_pair on documents of up to MaxPipelinePages pages  *)
(* of text, under policies with default and with test-suite line ratios.   *)
(***************************************************************************)
MaxPipelinePages == 2   \* most pages of a document in PipelineSpec

PipelineContents == {<<>>, <<"a", "a">>, <<"q", "r", "\n">>}

PipelinePages == UNION {PageLists(FALSE, n) : n \in 0..MaxPipelinePages}

PipelinePolicies ==
    {PipelinePolicy({}, {}, DefaultLineRatios, FALSE, FALSE),
     PipelinePolicy({}, {}, [warn |-> Frac(1, 1), fail |-> Frac(1, 1)], FALSE, FALSE),
     PipelinePolicy({"LINES"}, {"ALIGNMENT", "MTF"}, DefaultLineRatios, TRUE, TRUE)}

PipelineInit ==
    /\ \E np \in BOOLEAN, interactive \in BOOLEAN, policy \in PipelinePolicies,
          content \in PipelineContents,
          reference_pages \in PipelinePages, candidate_pages \in PipelinePages :
          vp = NewPipeline(np, interactive, policy,
                           DocumentData(<<>>, reference_pages, <<>>),
                           DocumentData(content, candidate_pages, <<>>))
    /\ profile = 0 /\ twister = 0 /\ sim = 0
    /\ lc = Off /\ al = Off /\ vd = Off

PipelineSpec == PipelineInit /\ [][PipelineNext]_vars

(***************************************************************************)
(* The end-to-end scenarios: text files of TextLines lines.  ScenarioBSpec *)
(* verifies a file against a byte-identical copy under any hard and warn   *)
(* sets; ScenarioCSpec verifies it against a copy that lacks MissingLines  *)
(* of its lines, under an empty hard-set.  Thresholds are the defaults.    *)
(***************************************************************************)
TextLines == 10         \* lines of the reference file

MissingLines == 5       \* lines the candidate file of scenario C lacks

MaxEmptyLines == 3      \* most empty lines of the reference file of scenario C

ScenarioLineValues == {EmptyLine, <<"a">>}

ScenarioTexts == [1..TextLines -> ScenarioLineValues]

EmptyLinesOf(lns) == Cardinality({k \in 1..Len(lns) : lns[k] = EmptyLine})

\* the bytes of a text file whose lines each end with "\n"
RECURSIVE JoinLines(_)
JoinLines(lns) ==
    IF Len(lns) = 0 THEN <<>> ELSE lns[1] \o <<"\n">> \o JoinLines(Tail(lns))

\* sub is what remains of lns after some of its lines are taken out
RECURSIVE IsSubsequence(_, _)
IsSubsequence(sub, lns) ==
    IF Len(sub) = 0 THEN TRUE
    ELSE IF Len(lns) < Len(sub) THEN FALSE
    ELSE IF sub[1] = lns[1] THEN IsSubsequence(Tail(sub), Tail(lns))
    ELSE IsSubsequence(sub, Tail(lns))

ScenarioHardSets == {{}, {"LINES"}, {"NOISE"}}

ScenarioWarnSets == {{}, {"MTF"}, {"NOISE"}, {"BARCODE", "OCR"}}

DefaultPolicy(hard, warn) == PipelinePolicy(hard, warn, DefaultLineRatios, FALSE, FALSE)

ScenarioBInit ==
    /\ \E np \in BOOLEAN, interactive \in BOOLEAN,
          hard \in ScenarioHardSets, warn \in ScenarioWarnSets,
          lns \in {l \in ScenarioTexts : EmptyLinesOf(l) \in {0, 1, TextLines - 1, TextLines}} :
          vp = NewPipeline(np, interactive, DefaultPolicy(hard, warn),
                           TextDocument(JoinLines(lns)), TextDocument(JoinLines(lns)))
    /\ profile = 0 /\ twister = 0 /\ sim = 0
    /\ lc = Off /\ al = Off /\ vd = Off

ScenarioBSpec == ScenarioBInit /\ [][PipelineNext]_vars

ScenarioCWarnSets == {{}, {"LINES", "NOISE"}}

ScenarioCInit ==
    /\ \E np \in BOOLEAN, interactive \in BOOLEAN, warn \in ScenarioCWarnSets,
          lns \in {l \in ScenarioTexts : EmptyLinesOf(l) <= MaxEmptyLines},
          kept \in [1..(TextLines - MissingLines) -> ScenarioLineValues] :
          /\ IsSubsequence(kept, lns)
          /\ vp = NewPipeline(np, interactive, DefaultPolicy({}, warn),
                              TextDocument(JoinLines(lns)), TextDocument(JoinLines(kept)))
    /\ profile = 0 /\ twister = 0 /\ sim = 0
    /\ lc = Off /\ al = Off /\ vd = Off

ScenarioCSpec == ScenarioCInit /\ [][PipelineNext]_vars

(***************************************************************************)
(* Claims about the negotiation simulator (checked under SimSpec)          *)
(***************************************************************************)
Done(p) == sim[p].pc = "done"

EventTags(evs) == [k \in 1..Len(evs) |-> evs[k].event]

\* C1: two executions of FaxSimulation(profile, seed).run() with the same profile
\* and the same seed return the same final_bitrate, fallback_steps and events.
C1_Determinism ==
    \A p, q \in Sims :
        (Done(p) /\ Done(q) /\ sim[p].seed = sim[q].seed)
            => SimulationResult(p) = SimulationResult(q)

\* Two distinct objects with the same seed have both returned after drawing.
C1_Witness ==
    \E p, q \in Sims :
        /\ p # q /\ Done(p) /\ Done(q)
        /\ sim[p].seed = sim[q].seed
        /\ sim[p].draws >= 2

\* C3 as stated: fallback_steps = 0 gives final_bitrate = max_bitrate, otherwise
\* final_bitrate is an element of bitrate_steps.
C3_AsStated ==
    \A p \in Sims :
        Done(p) =>
            IF SimulationResult(p).fallback_steps = 0
            THEN SimulationResult(p).final_bitrate = profile.max_bitrate
            ELSE SimulationResult(p).final_bitrate \in Range(profile.bitrate_steps)

\* C3 amended: fallback_steps = 0 gives final_bitrate = bitrate_steps[0] (the first
\* listed step, whatever max_bitrate is), otherwise final_bitrate is an element of
\* bitrate_steps.
C3_FinalBitrate ==
    \A p \in Sims :
        Done(p) =>
            IF SimulationResult(p).fallback_steps = 0
            THEN SimulationResult(p).final_bitrate = profile.bitrate_steps[1]
            ELSE SimulationResult(p).final_bitrate \in Range(profile.bitrate_steps)

\* One run accepted the first step of a profile whose max_bitrate is another
\* value, and another run fell back.
C3_Witness ==
    \E p, q \in Sims :
        /\ Done(p) /\ SimulationResult(p).fallback_steps = 0
        /\ SimulationResult(p).final_bitrate # profile.max_bitrate
        /\ Done(q) /\ SimulationResult(q).fallback_steps > 0

\* C7: a returned trace starts with the only DIS event (PHASE_B, t = 0), ends with
\* START (PHASE_C) immediately followed by MCF (PHASE_D, "retransmits=0"), and
\* holds no other DIS, START or MCF event.
C7_TraceFraming ==
    \A p \in Sims :
        Done(p) =>
            LET evs == SimulationResult(p).events
                n == Len(evs)
            IN  /\ n >= 3
                /\ evs[1].event = "DIS" /\ evs[1].phase = "PHASE_B" /\ evs[1].timestamp = 0
                /\ evs[n - 1].event = "START" /\ evs[n - 1].phase = "PHASE_C"
                /\ evs[n].event = "MCF" /\ evs[n].phase = "PHASE_D"
                /\ evs[n].detail = "retransmits=0"
                /\ \A k \in 1..n :
                      /\ evs[k].event = "DIS" => k = 1
                      /\ evs[k].event = "START" => k = n - 1
                      /\ evs[k].event = "MCF" => k = n

\* A run that fell back before accepting has returned its trace.
C7_Witness ==
    \E p \in Sims :
        /\ Done(p)
        /\ SimulationResult(p).fallback_steps > 0
        /\ Len(SimulationResult(p).events) >= 7

(***************************************************************************)
(* Claims about compare_sequences and the LINES status (LinesSpec)         *)
(***************************************************************************)
\* C6: LINES is WARN when total_lines is 0; otherwise FAIL when mismatch_ratio >=
\* the fail ratio, else WARN when mismatch_ratio >= the warn ratio, else PASS; so a
\* ratio equal to the warn ratio is WARN and a ratio equal to the fail ratio is FAIL.
C6_LinesThresholds ==
    lc.pc = "done" =>
        LET total == lc.result.total_lines
            mism == total - lc.result.matching_lines
            warn == lc.ratios.warn
            fail == lc.ratios.fail
        IN  /\ total = 0 => lc.status = "WARN"
            /\ (total > 0 /\ mism * fail.den >= fail.num * total) => lc.status = "FAIL"
            /\ (total > 0 /\ mism * fail.den < fail.num * total
                          /\ mism * warn.den >= warn.num * total) => lc.status = "WARN"
            /\ (total > 0 /\ mism * fail.den < fail.num * total
                          /\ mism * warn.den < warn.num * total) => lc.status = "PASS"

\* A comparison whose mismatch ratio equals the warn ratio and is below the fail
\* ratio has been given its status.
C6_Witness ==
    /\ lc.pc = "done"
    /\ lc.result.total_lines > 0
    /\ (lc.result.total_lines - lc.result.matching_lines) * lc.ratios.warn.den
          = lc.ratios.warn.num * lc.result.total_lines
    /\ FracLt(lc.ratios.warn, lc.ratios.fail)
    /\ lc.status = "WARN"

(***************************************************************************)
(* Claims about align_documents on identical and permuted documents        *)
(* (PermSpec)                                                              *)
(***************************************************************************)
AlignDone == al.pc = "done"

\* The i-th pages of the two documents have identical content.
SamePages ==
    /\ Len(al.reference) = Len(al.candidate)
    /\ \A k \in 1..Len(al.reference) : Content(al.reference[k]) = Content(al.candidate[k])

\* Reference page i is paired with candidate page i, for every i.
PairedByPosition ==
    /\ Len(al.result.pairs) = Len(al.reference)
    /\ \A k \in 1..Len(al.result.pairs) :
          /\ al.result.pairs[k].reference.index = k - 1
          /\ al.result.pairs[k].candidate.index = k - 1

AllConfident ==
    \A k \in 1..Len(al.result.pairs) :
        al.result.pairs[k].confidence.num = al.result.pairs[k].confidence.den

\* The page carries a signal _page_similarity can score: text lines, or a
\* non-empty pixel grid numpy can read.
HasSignal(page) ==
    \/ Len(page.text_lines) > 0
    \/ (al.np /\ page.image.present /\ Height(page.image) > 0 /\ Width(page.image) > 0)

\* C4 as stated: identical pages in identical order (at least one page, any
\* content), no terminal: page i is paired with page i, every confidence is 1.0
\* and there is no warning.
C4_AsStated ==
    (AlignDone /\ ~al.interactive /\ SamePages /\ Len(al.reference) >= 1)
        => (PairedByPosition /\ AllConfident /\ al.result.warnings = <<>>)

\* C4 amended: the same, for documents whose every page carries text lines or a
\* pixel grid.
C4_AlignmentIdentity ==
    (AlignDone /\ ~al.interactive /\ SamePages /\ Len(al.reference) >= 1
       /\ \A k \in 1..Len(al.reference) : HasSignal(al.reference[k]))
        => (PairedByPosition /\ AllConfident /\ al.result.warnings = <<>>)

\* Identical three-page documents with a repeated page, a text page and a pixel
\* page have been aligned.
C4_Witness ==
    /\ AlignDone /\ ~al.interactive /\ SamePages
    /\ Len(al.reference) = 3
    /\ \A k \in 1..3 : HasSignal(al.reference[k])
    /\ Content(al.reference[1]) = Content(al.reference[3])
    /\ Len(al.reference[1].text_lines) = 2
    /\ al.reference[2].image.present
    /\ Len(al.result.pairs) = 3

\* The pages of the reference document are pairwise distinct and the candidate
\* document holds the same pages in some order.
DistinctPages ==
    \A a, b \in 1..Len(al.reference) :
        Content(al.reference[a]) = Content(al.reference[b]) => a = b

IsPermutation ==
    /\ Len(al.reference) = Len(al.candidate)
    /\ \E f \in Bijections(Len(al.reference)) :
          \A k \in 1..Len(al.reference) :
              Content(al.candidate[k]) = Content(al.reference[f[k]])

\* Every pair joins two pages of identical content, one pair per page.
RecoveredByContent ==
    /\ Len(al.result.pairs) = Len(al.reference)
    /\ \A k \in 1..Len(al.result.pairs) :
          Content(al.result.pairs[k].reference) = Content(al.result.pairs[k].candidate)

\* C5 as stated: pairwise distinct reference pages of any content, candidate a
\* permutation, no terminal, default threshold: every pair joins identical pages.
C5_AsStated ==
    (AlignDone /\ ~al.interactive /\ al.threshold = DEFAULT_LOW_CONFIDENCE
       /\ DistinctPages /\ IsPermutation)
        => RecoveredByContent

\* Two different pages are not near duplicates: their content score is at most 0.75.
FarApart ==
    \A a, b \in 1..Len(al.reference) :
        a # b => FracLe(ContentScore(al.np, al.reference[a], al.reference[b]), Frac(3, 4))

\* C5 amended: the same, for pages that each carry text lines or a pixel grid and
\* of which no two have a content score above 0.75.
C5_AlignmentPermutation ==
    (AlignDone /\ ~al.interactive /\ al.threshold = DEFAULT_LOW_CONFIDENCE
       /\ DistinctPages /\ IsPermutation /\ FarApart
       /\ \A k \in 1..Len(al.reference) : HasSignal(al.reference[k]))
        => RecoveredByContent

\* A three-page document whose pages all moved (as in the test suite's
\* alpha/beta/gamma case) has been aligned, two of its pages sharing a line.
C5_Witness ==
    /\ AlignDone /\ ~al.interactive /\ al.threshold = DEFAULT_LOW_CONFIDENCE
    /\ DistinctPages /\ IsPermutation /\ FarApart
    /\ Len(al.reference) = 3
    /\ \A k \in 1..3 : HasSignal(al.reference[k])
    /\ \A k \in 1..3 : Content(al.reference[k]) # Content(al.candidate[k])
    /\ \E a, b \in 1..3 :
          a # b /\ FracLt(Frac(0, 1), ContentScore(al.np, al.reference[a], al.reference[b]))
    /\ RecoveredByContent

(***************************************************************************)
(* Claims about _derive_verdict (VerdictSpec)                              *)
(***************************************************************************)
\* Some metric of the list fails and is hard under the policy.
SomeHardFail ==
    \E k \in 1..Len(vd.metrics) :
        /\ vd.metrics[k].status = "FAIL"
        /\ (vd.policy.hard = {} \/ vd.metrics[k].name \in vd.policy.hard)

\* Some metric of the list is WARN or SKIP and named in the warn-set.
SomeListedWarn ==
    \E k \in 1..Len(vd.metrics) :
        /\ vd.metrics[k].status \in {"WARN", "SKIP"}
        /\ vd.metrics[k].name \in vd.policy.warn

\* C2: _derive_verdict returns FAIL iff some metric is FAIL and (the hard-set is
\* empty or names it); otherwise WARN iff some metric is WARN or SKIP and named in
\* the warn-set; otherwise PASS.
C2_VerdictDerivation ==
    vd.pc = "done" =>
        /\ vd.result = "FAIL" <=> SomeHardFail
        /\ ~SomeHardFail => (vd.result = "WARN" <=> SomeListedWarn)
        /\ (~SomeHardFail /\ ~SomeListedWarn) => vd.result = "PASS"
        /\ (\A k \in 1..Len(vd.metrics) : vd.metrics[k].status = "PASS") => vd.result = "PASS"

\* A list with a warn-set WARN followed by a FAIL that only the empty hard-set
\* makes hard has been given its verdict.
C2_Witness ==
    /\ vd.pc = "done"
    /\ Len(vd.metrics) = 3
    /\ vd.policy.hard = {}
    /\ vd.metrics[1].status = "SKIP" /\ vd.metrics[1].name \in vd.policy.warn
    /\ vd.metrics[2].status = "PASS"
    /\ vd.metrics[3].status = "FAIL"
    /\ vd.result = "FAIL"

(***************************************************************************)
(* Claims about verify_pair (ScenarioBSpec, ScenarioCSpec, PipelineSpec)   *)
(***************************************************************************)
VerifyDone == vp.pc = "done"

MetricNamed(name) ==
    vp.summary.metrics[CHOOSE k \in 1..Len(vp.summary.metrics) :
                           vp.summary.metrics[k].name = name]

\* Both files are text files of TextLines lines.
TextFiles ==
    /\ vp.files.reference = TextDocument(vp.files.reference.content)
    /\ vp.files.candidate = TextDocument(vp.files.candidate.content)
    /\ Len(DecodeLines(vp.files.reference.content)) = TextLines

IdenticalFiles == TextFiles /\ vp.files.candidate.content = vp.files.reference.content

DefaultThresholds ==
    /\ vp.policy.ratios = DefaultLineRatios
    /\ ~vp.policy.ocr_required /\ ~vp.policy.barcode_required

LinesZeroPass ==
    /\ MetricNamed("LINES").value = [kind |-> "num", v |-> 0]
    /\ MetricNamed("LINES").status = "PASS"

\* C8 as stated: byte-identical text files of 10 lines, default thresholds, any
\* hard-set and warn-set: LINES is 0.0 and PASS, and the verdict is PASS.
C8_AsStated ==
    (VerifyDone /\ IdenticalFiles /\ DefaultThresholds)
        => (LinesZeroPass /\ vp.summary.verdict = "PASS")

\* C8 amended: LINES is 0.0 and PASS; the verdict is PASS when the warn-set names
\* none of MTF, OCR and BARCODE and the NOISE metric passes, and it is not PASS
\* when the warn-set names MTF.
C8_ScenarioB ==
    (VerifyDone /\ IdenticalFiles /\ DefaultThresholds)
        => /\ LinesZeroPass
           /\ (vp.policy.warn \cap {"MTF", "OCR", "BARCODE"} = {}
                 /\ MetricNamed("NOISE").status = "PASS")
                => vp.summary.verdict = "PASS"
           /\ "MTF" \in vp.policy.warn => vp.summary.verdict # "PASS"

\* Identical files with non-empty lines have been verified under non-empty hard
\* and warn sets and passed.
C8_Witness ==
    /\ VerifyDone /\ IdenticalFiles /\ DefaultThresholds
    /\ vp.policy.hard # {} /\ vp.policy.warn # {}
    /\ EmptyLinesOf(DecodeLines(vp.files.reference.content)) = 0
    /\ LinesZeroPass
    /\ vp.summary.verdict = "PASS"

\* The candidate file holds the reference file's lines but for MissingLines of them.
LacksLines ==
    /\ TextFiles
    /\ Len(DecodeLines(vp.files.candidate.content)) = TextLines - MissingLines
    /\ IsSubsequence(DecodeLines(vp.files.candidate.content),
                     DecodeLines(vp.files.reference.content))

\* C9 as stated: the candidate lacks 5 of the reference's 10 lines (any 5, of any
\* content), default thresholds, empty hard-set: LINES is FAIL and the verdict FAIL.
C9_AsStated ==
    (VerifyDone /\ LacksLines /\ DefaultThresholds /\ vp.policy.hard = {})
        => (MetricNamed("LINES").status = "FAIL" /\ vp.summary.verdict = "FAIL")

\* Non-empty lines among the reference's last MissingLines lines: the positions the
\* shorter candidate is padded with empty strings at.
NonEmptyTail ==
    LET lns == DecodeLines(vp.files.reference.content)
    IN  Cardinality({k \in (TextLines - MissingLines + 1)..TextLines : lns[k] # EmptyLine})

\* C9 amended: the same, for reference files in which at least three of the last
\* five lines (30% of the lines) are non-empty.
C9_ScenarioC ==
    (VerifyDone /\ LacksLines /\ DefaultThresholds /\ vp.policy.hard = {}
       /\ 10 * NonEmptyTail >= 3 * TextLines)
        => (MetricNamed("LINES").status = "FAIL" /\ vp.summary.verdict = "FAIL")

\* A candidate that lost the reference's last five lines, three of them non-empty,
\* has been verified: exactly 30% of the positions mismatch.
C9_Witness ==
    /\ VerifyDone /\ LacksLines /\ DefaultThresholds /\ vp.policy.hard = {}
    /\ 10 * NonEmptyTail >= 3 * TextLines
    /\ 10 * MismatchCount(vp.line_comparison) = 3 * vp.line_comparison.total_lines
    /\ MetricNamed("LINES").status = "FAIL"
    /\ vp.summary.verdict = "FAIL"

\* The documents made of the pairs' pages, in pair order.
PairedReference ==
    DocumentData(vp.files.reference.content,
                 [k \in 1..Len(vp.page_pairs) |-> vp.page_pairs[k].reference],
                 vp.files.reference.warnings)

PairedCandidate ==
    DocumentData(vp.files.candidate.content,
                 [k \in 1..Len(vp.page_pairs) |-> vp.page_pairs[k].candidate],
                 vp.files.candidate.warnings)

\* The summary stores the documents made of the pairs' pages and its metrics are
\* those of these documents.
ScoredAsPaired ==
    /\ vp.summary.reference = PairedReference
    /\ vp.summary.candidate = PairedCandidate
    /\ vp.summary.metrics =
          RunMetrics(vp.np, vp.policy, PairedReference, PairedCandidate,
                     CompareLines(PairedReference, PairedCandidate), vp.alignment_warnings)

\* C10 as stated: for every alignment outcome, an empty pair list included, the
\* documents scored and stored hold exactly the pairs' pages in pair order.
C10_AsStated == VerifyDone => ScoredAsPaired

\* C10 amended: so it is whenever there is at least one pair; with an empty pair
\* list the documents are scored and stored as they were loaded.
C10_Rematerialisation ==
    VerifyDone =>
        /\ vp.page_pairs # <<>> => ScoredAsPaired
        /\ vp.page_pairs = <<>> =>
              /\ vp.summary.reference = vp.files.reference
              /\ vp.summary.candidate = vp.files.candidate
              /\ vp.summary.metrics =
                    RunMetrics(vp.np, vp.policy, vp.files.reference, vp.files.candidate,
                               CompareLines(vp.files.reference, vp.files.candidate),
                               vp.alignment_warnings)

\* Two pages that swapped places have been verified: the stored candidate starts
\* with its second source page and no line mismatches.
C10_Witness ==
    /\ VerifyDone
    /\ Len(vp.page_pairs) = 2
    /\ vp.page_pairs[1].candidate.index = 1
    /\ vp.summary.candidate.pages[1] = vp.files.candidate.pages[2]
    /\ vp.summary.candidate.pages[1] # vp.files.candidate.pages[1]
    /\ vp.line_comparison.total_lines = 2
    /\ MismatchCount(vp.line_comparison) = 0

(***************************************************************************)
(* Claims about align_documents on any two documents (AlignSpec)           *)
(***************************************************************************)
CandidateIndices == 0..(Len(al.candidate) - 1)

HasPair(j) == \E k \in 1..Len(al.result.pairs) : al.result.pairs[k].candidate.index = j

PairOf(j) ==
    al.result.pairs[CHOOSE k \in 1..Len(al.result.pairs) :
                        al.result.pairs[k].candidate.index = j]

\* The reference pages given to the candidate pages before page j.
TakenBefore(j) ==
    {al.result.pairs[k].reference.index :
        k \in {n \in 1..Len(al.result.pairs) : al.result.pairs[n].candidate.index < j}}

\* The number of "Low alignment confidence" warnings naming candidate page j.
LowWarnings(j) ==
    Cardinality({k \in 1..Len(al.result.warnings) :
                    /\ al.result.warnings[k].kind = "low"
                    /\ al.result.warnings[k].args[1] = j})

BelowThreshold(score) == score.num * al.threshold.den < al.threshold.num * score.den

\* C11: without a terminal, a candidate page whose best score among the reference
\* pages still free is below the threshold is paired with that page all the same
\* and gets exactly one "Low alignment confidence" warning; a page whose chosen
\* score is at or above the threshold gets none.
C11_LowConfidence ==
    (AlignDone /\ ~al.interactive) =>
        \A j \in CandidateIndices :
            IF HasPair(j)
            THEN LET r == PairOf(j).reference.index
                 IN  /\ PairOf(j).confidence = al.similarity[r][j]
                     /\ \A other \in (0..(Len(al.reference) - 1)) \ TakenBefore(j) :
                           al.similarity[other][j].num * al.similarity[r][j].den
                               <= al.similarity[r][j].num * al.similarity[other][j].den
                     /\ LowWarnings(j) = IF BelowThreshold(PairOf(j).confidence) THEN 1 ELSE 0
            ELSE LowWarnings(j) = 0

\* A call without a terminal has paired one page below the threshold (warned once)
\* and one page exactly at the threshold (not warned).
C11_Witness ==
    /\ AlignDone /\ ~al.interactive
    /\ \E j, i \in CandidateIndices :
          /\ HasPair(j) /\ BelowThreshold(PairOf(j).confidence) /\ LowWarnings(j) = 1
          /\ HasPair(i) /\ PairOf(i).confidence = al.threshold /\ LowWarnings(i) = 0

(***************************************************************************)
(* Claims about the pixel metrics of documents without pixels              *)
(* (PipelineSpec: no page has a pixel array, with and without numpy)       *)
(***************************************************************************)
PixelMetrics == {"SSIM", "PSNR", "SKEW", "NOISE", "MTF"}

Degraded(name) == MetricNamed(name).status \in {"SKIP", "WARN"}

NoPages == vp.files.reference.pages = <<>> \/ vp.files.candidate.pages = <<>>

Unlisted(k) == vd.metrics[k].name \notin (vd.policy.hard \cup vd.policy.warn)

\* The verdict of the list in which metric k has the given status instead.
VerdictWith(k, status) ==
    DeriveVerdict([vd.metrics EXCEPT ![k].status = status], vd.policy)

\* C13: under a non-empty hard-set, giving a metric named in neither set any other
\* status leaves the verdict as it is; under any policy, the verdict changes with
\* the status of such a metric only if the hard-set is empty and the status it
\* had or the status it gets is FAIL.
C13_UnlistedMetrics ==
    vd.pc = "done" =>
        \A k \in 1..Len(vd.metrics) : \A status \in Statuses :
            Unlisted(k) =>
                /\ vd.policy.hard # {} => VerdictWith(k, status) = vd.result
                /\ VerdictWith(k, status) # vd.result
                      => /\ vd.policy.hard = {}
                         /\ "FAIL" \in {status, vd.metrics[k].status}

\* Under a non-empty hard-set a list has got the verdict WARN from a warn-set
\* metric although a metric named in neither set is FAIL.
C13_Witness ==
    /\ vd.pc = "done"
    /\ vd.policy.hard # {}
    /\ vd.result = "WARN"
    /\ \E k \in 1..Len(vd.metrics) : Unlisted(k) /\ vd.metrics[k].status = "FAIL"

\* Some metric of the list is FAIL and named in the warn-set.
SomeListedFail ==
    \E k \in 1..Len(vd.metrics) :
        /\ vd.metrics[k].status = "FAIL"
        /\ vd.metrics[k].name \in vd.policy.warn

\* C14 as stated: when no metric is a fatal FAIL, a warn-set metric that is FAIL,
\* WARN or SKIP makes the verdict WARN.
C14_AsStated ==
    (vd.pc = "done" /\ ~SomeHardFail /\ (SomeListedFail \/ SomeListedWarn))
        => vd.result = "WARN"

\* C14 amended: when no metric is a fatal FAIL, a warn-set metric that is WARN or
\* SKIP makes the verdict WARN; a warn-set metric that is FAIL does not: without a
\* warn-set metric that is WARN or SKIP the verdict is PASS.
C14_WarnDowngrade ==
    (vd.pc = "done" /\ ~SomeHardFail) =>
        /\ SomeListedWarn => vd.result = "WARN"
        /\ (SomeListedFail /\ ~SomeListedWarn) => vd.result = "PASS"

\* A list whose only blemish is a FAIL of a warn-set metric that the non-empty
\* hard-set does not name has got the verdict PASS.
C14_Witness ==
    /\ vd.pc = "done"
    /\ vd.policy.hard # {}
    /\ SomeListedFail /\ ~SomeListedWarn /\ ~SomeHardFail
    /\ vd.result = "PASS"

(***************************************************************************)
(* Further claims about the negotiation simulator (SimSpec)                *)
(***************************************************************************)
\* C15: in every trace run() returns, each event's timestamp is greater than or
\* equal to the timestamp of the event before it.
C15_MonotoneTimestamps ==
    \A p \in Sims :
        Done(p) =>
            LET evs == SimulationResult(p).events
            IN  \A k \in 2..Len(evs) : evs[k].timestamp >= evs[k - 1].timestamp

\* A run that fell back before a later step was accepted has returned its trace:
\* DIS, TCF, FALLBACK, TCF, CFR, START, MCF.
C15_Witness ==
    \E p \in Sims :
        /\ Done(p)
        /\ SimulationResult(p).fallback_steps >= 1
        /\ EventTags(SimulationResult(p).events)
              = <<"DIS", "TCF", "FALLBACK", "TCF", "CFR", "START", "MCF">>

PhaseTags == {"PHASE_A", "PHASE_B", "PHASE_C", "PHASE_D"}

EventVocabulary == {"DIS", "TCF", "CFR", "FALLBACK", "START", "MCF"}

\* C16 as stated: every event of every trace run() returns has a phase tag in
\* {PHASE_A, PHASE_B, PHASE_C, PHASE_D} and an event tag in {DIS, TCF, CFR,
\* FALLBACK, START, MCF}, whatever the profile's standard is.
C16_AsStated ==
    \A p \in Sims :
        Done(p) =>
            \A k \in 1..Len(SimulationResult(p).events) :
                /\ SimulationResult(p).events[k].phase \in PhaseTags
                /\ SimulationResult(p).events[k].event \in EventVocabulary

\* A returned trace holds a TCF event whose phase field is the profile's standard.
C16_Witness ==
    \E p \in Sims :
        /\ Done(p)
        /\ \E k \in 1..Len(SimulationResult(p).events) :
              /\ SimulationResult(p).events[k].event = "TCF"
              /\ SimulationResult(p).events[k].phase = profile.standard
              /\ profile.standard \notin PhaseTags

(***************************************************************************)
(* Further claims about align_documents (AlignSpec)                        *)
(***************************************************************************)
\* The page-count-mismatch warnings among the returned warnings.
CountWarnings ==
    {k \in 1..Len(al.result.warnings) :
        al.result.warnings[k].kind \in {"count", "count-ignored"}}

\* C17: when either document has no pages, align_documents returns the pairs of
\* _pair_by_index (none, as min of the page counts is 0), exactly one page-count-
\* mismatch warning and nothing else when the page counts differ, and no warning
\* when both documents have no pages.
C17_Degenerate ==
    (AlignDone /\ IsDegenerate(al.reference, al.candidate)) =>
        /\ al.result.pairs = PairByIndex(al.reference, al.candidate)
        /\ al.result.pairs = <<>>
        /\ Len(al.reference) # Len(al.candidate)
              => /\ Len(al.result.warnings) = 1
                 /\ al.result.warnings[1].kind = "count-ignored"
                 /\ al.result.warnings[1].args = <<Len(al.reference), Len(al.candidate)>>
        /\ Len(al.reference) = Len(al.candidate) => al.result.warnings = <<>>

\* A candidate of two pages has been aligned with a reference without pages.
C17_Witness ==
    /\ AlignDone
    /\ Len(al.reference) = 0 /\ Len(al.candidate) = 2
    /\ Cardinality(CountWarnings) = 1

\* C18: align_documents returns a page-count-mismatch warning (exactly one, the
\* last of the warnings) if and only if the two page counts differ, in the branch
\* for documents without pages and in the general branch, however well the paired
\* pages match.
C18_CountMismatch ==
    AlignDone =>
        /\ CountWarnings # {} <=> Len(al.reference) # Len(al.candidate)
        /\ CountWarnings \subseteq {Len(al.result.warnings)}
        /\ \A k \in CountWarnings :
              al.result.warnings[k] =
                  IF IsDegenerate(al.reference, al.candidate)
                  THEN Warning("count-ignored", <<Len(al.reference), Len(al.candidate)>>)
                  ELSE Warning("count", <<Len(al.reference), Len(al.candidate),
                                          Len(al.result.pairs)>>)

\* Three reference pages have been aligned with two candidate pages, both paired
\* with full confidence, and the page counts are still reported.
C18_Witness ==
    /\ AlignDone
    /\ Len(al.reference) = 3 /\ Len(al.candidate) = 2
    /\ Len(al.result.pairs) = 2
    /\ \A k \in 1..Len(al.result.pairs) : al.result.pairs[k].confidence = Frac(1, 1)
    /\ Cardinality(CountWarnings) = 1

\* C19: the pairs align_documents returns are in strictly increasing order of
\* the reference page's index in the reference document, and the k-th pair
\* (counting from 0) has index k.
C19_OutputOrder ==
    AlignDone =>
        /\ \A k \in 1..Len(al.result.pairs) :
              /\ al.result.pairs[k].index = k - 1
              /\ al.result.pairs[k].reference
                    = al.reference[al.result.pairs[k].reference.index + 1]
        /\ \A k \in 2..Len(al.result.pairs) :
              al.result.pairs[k - 1].reference.index < al.result.pairs[k].reference.index

\* Three pairs have been returned in an order that is not the order the candidate
\* pages were matched in.
C19_Witness ==
    /\ AlignDone
    /\ Len(al.result.pairs) = 3
    /\ al.result.pairs[1].candidate.index > al.result.pairs[2].candidate.index
    /\ al.result.pairs[1].index = 0 /\ al.result.pairs[3].index = 2

\* A step of object p leaves the generator of every other object where it was.
OwnGeneratorOnly ==
    \A p, q \in Sims :
        (p # q /\ sim'[p] # sim[p]) => sim'[q].draws = sim[q].draws

\* C20: with the steps of several simulations interleaved in any order, each
\* run() returns the result it returns when executed alone on its seed, and a
\* step of one simulation never moves the generator of another.
C20_Isolation ==
    /\ [](\A p \in Sims :
            Done(p) => /\ RunAlone(profile, sim[p].seed).known
                       /\ SimulationResult(p) = RunAlone(profile, sim[p].seed).result)
    /\ [][OwnGeneratorOnly]_vars

\* A simulation has returned after two draws while another one, built with the
\* same seed, is inside its loop and has drawn once.
C20_Witness ==
    \E p, q \in Sims :
        /\ p # q /\ sim[p].seed = sim[q].seed
        /\ Done(p) /\ sim[p].draws = 2
        /\ sim[q].pc = "walk" /\ sim[q].draws = 1

(***************************************************************************)
(* Claims about the walk over bitrate_steps (SimSpec)                      *)
(***************************************************************************)
\* The margin object p computed at its i-th draw, from the stream of its seed.
MarginAt(p, i) ==
    MarginFrac(profile, profile.bitrate_steps[i],
               CHOOSE noise \in twister[sim[p].seed][i] : TRUE)

BelowCfr(f) == f.num < CFR_THRESHOLD_DB * f.den

CountTag(evs, tag) == Cardinality({k \in 1..Len(evs) : evs[k].event = tag})

\* C21: a returned trace visits bitrate_steps in list order with one TCF event
\* per visited step; each step before the accepted one had a margin below -2.5 dB
\* and one FALLBACK event after its TCF; the accepted step is the first with a
\* margin of at least -2.5 dB, a CFR follows its TCF, no later step is visited and
\* final_bitrate is that step; fallback_steps is the number of FALLBACK events
\* and the position (from 0) of the accepted step.
C21_AcceptanceWalk ==
    \A p \in Sims :
        Done(p) =>
            LET res == SimulationResult(p)
                evs == res.events
                k == res.fallback_steps + 1
            IN  /\ k <= Len(profile.bitrate_steps)
                /\ Len(evs) = 2 * k + 3
                /\ \A i \in 1..(k - 1) :
                      /\ evs[2 * i].event = "TCF"
                      /\ evs[2 * i].detail[3] = profile.bitrate_steps[i]
                      /\ evs[2 * i + 1].event = "FALLBACK"
                      /\ evs[2 * i + 1].detail[1] = profile.bitrate_steps[i]
                      /\ BelowCfr(MarginAt(p, i))
                /\ evs[2 * k].event = "TCF"
                /\ evs[2 * k].detail[3] = profile.bitrate_steps[k]
                /\ ~BelowCfr(MarginAt(p, k))
                /\ evs[2 * k + 1].event = "CFR"
                /\ res.final_bitrate = profile.bitrate_steps[k]
                /\ CountTag(evs, "TCF") = k
                /\ CountTag(evs, "FALLBACK") = res.fallback_steps

\* A run has rejected its first step and accepted its second, a different bitrate.
C21_Witness ==
    \E p \in Sims :
        /\ Done(p)
        /\ SimulationResult(p).fallback_steps = 1
        /\ Len(profile.bitrate_steps) = 2
        /\ profile.bitrate_steps[1] # profile.bitrate_steps[2]
        /\ SimulationResult(p).final_bitrate = profile.bitrate_steps[2]
        /\ BelowCfr(MarginAt(p, 1))

\* The run of object p has ended and none of the steps had a margin of at least
\* -2.5 dB.
NoStepAccepted(p) ==
    /\ sim[p].pc \in {"done", "raised"}
    /\ sim[p].draws = Len(profile.bitrate_steps)
    /\ \A i \in 1..Len(profile.bitrate_steps) : BelowCfr(MarginAt(p, i))

CfrEvents(evs) == {k \in 1..Len(evs) : evs[k].event = "CFR"}

Drawn(p) == 1..sim[p].draws

\* The noise of the i-th draw of object p.
NoiseAt(p, i) == CHOOSE noise \in twister[sim[p].seed][i] : TRUE

\* The margin p recorded in the TCF event of its i-th step, in 1/100 dB.
RecordedMargin(p, i) == sim[p].events[2 * i].detail[2]

\* The margin-plus-noise the text of C23 gives for the highest and the lowest
\* step: a base of 3.0 dB and of 0 dB.
C23_AsStated ==
    \A p \in Sims : \A i \in Drawn(p) :
        /\ profile.bitrate_steps[i] = MaxOf(profile.bitrate_steps)
              => RecordedMargin(p, i) = 300 + NoiseAt(p, i)
        /\ (\A k \in 1..Len(profile.bitrate_steps) :
                profile.bitrate_steps[i] <= profile.bitrate_steps[k])
              => RecordedMargin(p, i) = 0 + NoiseAt(p, i)
        /\ NoiseAt(p, i) >= -200 /\ NoiseAt(p, i) <= 200

\* C23 amended: the base margin of a step is 3.0 - 3.0 * bitrate / max(steps):
\* 0 dB at the highest step and, for positive steps, larger the lower the step
\* (below 3.0 dB); the margin recorded is that base plus a noise in [-2.0, 2.0).
C23_BaseMargin ==
    \A p \in Sims : \A i \in Drawn(p) :
        LET m == MaxOf(profile.bitrate_steps)
            b == profile.bitrate_steps[i]
            sign == IF m < 0 THEN -1 ELSE 1
            margin == [num |-> (300 * (m - b) + NoiseAt(p, i) * m) * sign, den |-> m * sign]
        IN  /\ RecordedMargin(p, i) = FormatMargin(margin)
            /\ b = m => RecordedMargin(p, i) = NoiseAt(p, i)
            /\ (b > 0 /\ b < m) =>
                  /\ RecordedMargin(p, i) > NoiseAt(p, i)
                  /\ RecordedMargin(p, i) < 300 + NoiseAt(p, i)
            /\ NoiseAt(p, i) >= -200 /\ NoiseAt(p, i) < 200

\* A run has recorded 3.49 dB for the lowest of two positive steps: a base of
\* 1.5 dB and a noise of 1.99 dB.
C23_Witness ==
    \E p \in Sims :
        /\ profile.bitrate_steps = <<1, 2>>
        /\ sim[p].draws = 1
        /\ NoiseAt(p, 1) = 199
        /\ RecordedMargin(p, 1) = 349

(***************************************************************************)
(* Claims about the matching align_documents builds (AlignSpec)            *)
(***************************************************************************)
ReferenceIndices == 0..(Len(al.reference) - 1)

\* Score a is greater than score b.
Exceeds(a, b) == a.num * b.den > b.num * a.den

\* C24: without a terminal and with pages in both documents, the candidate pages
\* are taken in increasing index order, each while reference pages are left, and
\* the reference page paired with candidate page j has the greatest similarity to
\* page j among the reference pages not paired with an earlier candidate page.
C24_Greedy ==
    (AlignDone /\ ~al.interactive /\ ~IsDegenerate(al.reference, al.candidate)) =>
        \A j \in CandidateIndices :
            /\ HasPair(j) <=> j < Len(al.reference)
            /\ HasPair(j) =>
                  /\ PairOf(j).reference.index \in ReferenceIndices \ TakenBefore(j)
                  /\ \A i \in ReferenceIndices \ TakenBefore(j) :
                        ~Exceeds(al.similarity[i][j],
                                 al.similarity[PairOf(j).reference.index][j])

\* A candidate page has been paired with the best reference page left although a
\* reference page taken by an earlier candidate page is more similar to it.
C24_Witness ==
    /\ AlignDone /\ ~al.interactive
    /\ \E j \in CandidateIndices :
          /\ HasPair(j)
          /\ \E i \in TakenBefore(j) :
                Exceeds(al.similarity[i][j], al.similarity[PairOf(j).reference.index][j])
          /\ \E i \in ReferenceIndices \ (TakenBefore(j) \cup {PairOf(j).reference.index}) :
                Exceeds(al.similarity[PairOf(j).reference.index][j], al.similarity[i][j])

(***************************************************************************)
(* Claims about the order of the metric results (VerdictSpec)              *)
(***************************************************************************)
\* The list vd.metrics in the order given by the bijection f.
Reordered(f) == [k \in 1..Len(vd.metrics) |-> vd.metrics[f[k]]]

\* C25: _derive_verdict returns the same verdict for every ordering of the metric
\* results it is given.
C25_OrderIndependence ==
    vd.pc = "done" =>
        \A f \in Bijections(Len(vd.metrics)) :
            DeriveVerdict(Reordered(f), vd.policy) = vd.result

\* A list in which a warn-set WARN comes before a fatal FAIL and after another
\* result has got the verdict FAIL.
C25_Witness ==
    /\ vd.pc = "done"
    /\ Len(vd.metrics) = 3
    /\ vd.metrics[2].status = "WARN" /\ vd.metrics[2].name \in vd.policy.warn
    /\ vd.metrics[3].status = "FAIL" /\ vd.metrics[3].name \in vd.policy.hard
    /\ vd.metrics[1].status = "PASS"
    /\ vd.result = "FAIL"

(***************************************************************************)
(* Claims about the metric list of verify_pair (PipelineSpec)              *)
(***************************************************************************)
MetricNames == [k \in 1..Len(vp.summary.metrics) |-> vp.summary.metrics[k].name]

FixedMetrics == <<"SSIM", "PSNR", "SKEW", "NOISE", "MTF", "LINES", "OCR", "BARCODE">>

\* C26: the metric list holds SSIM, PSNR, SKEW, NOISE, MTF, LINES, OCR, BARCODE
\* once each in that order, followed by an ALIGNMENT result exactly when alignment
\* returned a warning; that result is WARN and has no value, and every alignment
\* warning is among the notes of the summary.
C26_AlignmentMetric ==
    VerifyDone =>
        /\ MetricNames = FixedMetrics
              \o (IF vp.alignment_warnings # <<>> THEN <<"ALIGNMENT">> ELSE <<>>)
        /\ vp.alignment_warnings # <<>> =>
              /\ vp.summary.metrics[Len(vp.summary.metrics)].status = "WARN"
              /\ vp.summary.metrics[Len(vp.summary.metrics)].value.kind = "none"
        /\ \A k \in 1..Len(vp.alignment_warnings) :
              \E n \in 1..Len(vp.summary.notes) :
                  vp.summary.notes[n] = vp.alignment_warnings[k]

\* A call whose alignment returned two warnings has ended with nine results.
C26_Witness ==
    /\ VerifyDone
    /\ Len(vp.alignment_warnings) >= 2
    /\ Len(vp.summary.metrics) = 9
    /\ vp.summary.metrics[9].name = "ALIGNMENT"
    /\ Len(vp.summary.notes) >= 2

(***************************************************************************)
(* Claims about profiles with positive bitrate steps (SimSpec)             *)
(***************************************************************************)
PositiveSteps ==
    /\ profile.bitrate_steps # <<>>
    /\ \A k \in 1..Len(profile.bitrate_steps) : profile.bitrate_steps[k] > 0

\* C27: with positive bitrate steps every margin computed is at least -2.0 dB, so
\* run() never raises, accepts the first step (fallback_steps = 0, final_bitrate =
\* bitrate_steps[0]) and emits no FALLBACK event and no "forced accept" CFR event.
C27_NoFallback ==
    PositiveSteps =>
        \A p \in Sims :
            /\ sim[p].pc # "raised"
            /\ sim[p].draws <= 1
            /\ \A i \in Drawn(p) : RecordedMargin(p, i) >= -200
            /\ \A k \in 1..Len(sim[p].events) :
                  /\ sim[p].events[k].event # "FALLBACK"
                  /\ sim[p].events[k].event = "CFR" => sim[p].events[k].detail = "ok"
            /\ Done(p) =>
                  /\ SimulationResult(p).fallback_steps = 0
                  /\ SimulationResult(p).final_bitrate = profile.bitrate_steps[1]

\* A run on two positive steps, the highest first, has returned after drawing
\* the lowest noise for its first step.
C27_Witness ==
    \E p \in Sims :
        /\ PositiveSteps /\ Done(p)
        /\ profile.bitrate_steps = <<2, 1>>
        /\ NoiseAt(p, 1) = -200
        /\ RecordedMargin(p, 1) = -200
        /\ SimulationResult(p).fallback_steps = 0

\* The warnings about a candidate page without a reference counterpart.
ExtraWarnings ==
    {k \in 1..Len(al.result.warnings) : al.result.warnings[k].kind = "extra"}

PairCount == Min2(Len(al.reference), Len(al.candidate))

\* C28: in the result of align_documents no reference page and no candidate page
\* is in two pairs, there are min(reference pages, candidate pages) pairs, the
\* paired candidate pages are the first that many candidate pages, and at most one
\* warning about a surplus candidate page is recorded (one exactly when the
\* candidate has more pages than a reference that has pages, naming the first
\* surplus page).
C28_OneToOne ==
    AlignDone =>
        /\ Len(al.result.pairs) = PairCount
        /\ \A a, b \in 1..Len(al.result.pairs) :
              a # b => /\ al.result.pairs[a].reference.index # al.result.pairs[b].reference.index
                       /\ al.result.pairs[a].candidate.index # al.result.pairs[b].candidate.index
        /\ \A k \in 1..Len(al.result.pairs) :
              /\ al.result.pairs[k].reference
                    = al.reference[al.result.pairs[k].reference.index + 1]
              /\ al.result.pairs[k].candidate
                    = al.candidate[al.result.pairs[k].candidate.index + 1]
        /\ {al.result.pairs[k].candidate.index : k \in 1..Len(al.result.pairs)}
              = 0..(PairCount - 1)
        /\ Cardinality(ExtraWarnings) <= 1
        /\ ExtraWarnings # {} <=>
              (Len(al.candidate) > Len(al.reference) /\ Len(al.reference) > 0)
        /\ \A k \in ExtraWarnings : al.result.warnings[k].args = <<Len(al.reference)>>

\* One reference page has been aligned with three candidate pages: one pair and
\* one warning for the two surplus pages.
C28_Witness ==
    /\ AlignDone
    /\ Len(al.reference) = 1 /\ Len(al.candidate) = 3
    /\ Len(al.result.pairs) = 1
    /\ Cardinality(ExtraWarnings) = 1

(***************************************************************************)
(* Claims about the NOISE metric (ScenarioBSpec: text files verified       *)
(* against a copy, under the default noise limit)                          *)
(***************************************************************************)
\* The noise value of the candidate the metrics were run on is below noiseWarn.
NoiseBelowWarn ==
    LET noise_value == NoiseIndex(vp.np, vp.summary.candidate)
    IN  noise_value.num * NOISE_WARN.den < NOISE_WARN.num * noise_value.den

\* C29: NOISE is PASS iff the noise value is below noiseWarn; at or above it the
\* status is WARN when the warn-set names NOISE and FAIL otherwise; NOISE is never
\* SKIP; under an empty hard-set and a warn-set without NOISE a noise value at or
\* above noiseWarn makes the verdict FAIL.
C29_NoiseStatus ==
    VerifyDone =>
        /\ MetricNamed("NOISE").status = "PASS" <=> NoiseBelowWarn
        /\ ~NoiseBelowWarn =>
              MetricNamed("NOISE").status
                  = IF "NOISE" \in vp.policy.warn THEN "WARN" ELSE "FAIL"
        /\ MetricNamed("NOISE").status # "SKIP"
        /\ (~NoiseBelowWarn /\ vp.policy.hard = {} /\ "NOISE" \notin vp.policy.warn)
              => vp.summary.verdict = "FAIL"

\* Without numpy a file of non-empty lines has been verified against its copy
\* under an empty hard-set: NOISE fails and so does the verdict.
C29_Witness ==
    /\ VerifyDone /\ ~vp.np
    /\ vp.policy.hard = {} /\ "NOISE" \notin vp.policy.warn
    /\ ~NoiseBelowWarn
    /\ MetricNamed("NOISE").status = "FAIL"
    /\ vp.summary.verdict = "FAIL"

(***************************************************************************)
(* C30: compare_sequences pads the shorter sequence with empty lines.      *)
(***************************************************************************)
\* lns followed by empty lines up to n positions
PaddedTo(lns, n) == [k \in 1..n |-> IF k <= Len(lns) THEN lns[k] ELSE EmptyLine]

\* longer is shorter followed only by empty lines
OnlyEmptyAppended(shorter, longer) ==
    /\ Len(shorter) <= Len(longer)
    /\ \A k \in 1..Len(longer) :
          longer[k] = IF k <= Len(shorter) THEN shorter[k] ELSE EmptyLine

ComparePositions == Max2(Len(lc.reference_lines), Len(lc.candidate_lines))

DifferingPositions ==
    {k \in 1..ComparePositions :
        PaddedTo(lc.reference_lines, ComparePositions)[k]
            # PaddedTo(lc.candidate_lines, ComparePositions)[k]}

Compared == lc.pc \in {"compared", "done"}

\* C30: once compare_sequences has returned, total_lines is the length of the
\* longer sequence, the mismatch count is the number of positions at which the
\* sequences differ after the shorter one is padded with empty lines, so that
\* matching_lines + mismatch_count = total_lines, the mismatch list holds at
\* most max_mismatches entries, and the mismatch count is 0 when one sequence
\* is the other followed only by empty lines.
C30_PadsWithEmptyLines ==
    Compared =>
        /\ lc.result.total_lines = ComparePositions
        /\ lc.result.total_lines - lc.result.matching_lines = Cardinality(DifferingPositions)
        /\ lc.result.matching_lines + Cardinality(DifferingPositions) = lc.result.total_lines
        /\ Len(lc.result.mismatched) <= lc.max_mismatches
        /\ Len(lc.result.mismatched) = Min2(Cardinality(DifferingPositions), lc.max_mismatches)
        /\ ( \/ OnlyEmptyAppended(lc.reference_lines, lc.candidate_lines)
             \/ OnlyEmptyAppended(lc.candidate_lines, lc.reference_lines) )
           => lc.result.total_lines - lc.result.matching_lines = 0

\* a returned comparison of a non-empty reference with the same lines plus
\* trailing empty lines: no mismatch although the lengths differ
C30_Witness ==
    /\ Compared
    /\ Len(lc.reference_lines) > 0
    /\ Len(lc.candidate_lines) > Len(lc.reference_lines)
    /\ OnlyEmptyAppended(lc.reference_lines, lc.candidate_lines)
    /\ lc.result.total_lines = Len(lc.candidate_lines)
    /\ lc.result.matching_lines = lc.result.total_lines
    /\ lc.result.mismatched = <<>>

====
